---- MODULE Spec2Model ----
(***************************************************************************)
(* A model of the UlearnContent backend services: the PDF text extractor,  *)
(* the structure inferencer, the image classifier / extractor / assembler, *)
(* the LLM content generator and the spreadsheet writer.                   *)
(*                                                                         *)
(* A string is a tuple of atoms (one-character strings, plus a few         *)
(* multi-character atoms where a whole token is treated as a unit).  A     *)
(* text is a non-empty tuple of lines, as produced by str.split('\n'):     *)
(* the empty string is the text with one empty line.                       *)
(***************************************************************************)
EXTENDS Integers, Sequences, FiniteSets, TLC

VARIABLES
    \* PDFService._extract_text_with_pdfplumber
    pdf, page_idx, text_parts, pages_info, total_pages, tpc,
    \* PDFService._extract_structure, and the merged text of extract_text_from_pdf
    lines, line_num, chapters, sections, all_text, spc,
    \* PDFService._extract_images_and_ocr, extract_text_from_pdf, MistralOCRService
    mistral_cfg, n_images, images, cur_page, cur_idx, image_results,
    content_breakdown, table_call, formula_call, apc,
    \* LLMService.generate_educational_content, PDFService._analyze_content_with_llm
    \* and PDFService.create_excel_content
    gemini_cfg, openai_cfg, calls, gen_call, atext_len, achapters, chapter_i,
    gen_log, content_items, excel_data, gpc,
    \* ExcelService.parse_json_data, create_excel_file and create_advanced_excel
    xdata, xdetailed, xmeta, parsed, reparsed, workbook, xpc,
    \* concurrent requests running extract_text_from_pdf and the temp image files
    rpc, ropen, rdoc, rpage, ridx, used, files, interfered,
    \* the operations of LLMService and the calls they make to the two backends
    llm_op, n_ops, primary_calls

textVars   == <<pdf, page_idx, text_parts, pages_info, total_pages, tpc>>
structVars == <<lines, line_num, chapters, sections, all_text, spc>>
imgVars    == <<mistral_cfg, n_images, images, cur_page, cur_idx, image_results,
                content_breakdown, table_call, formula_call, apc>>
genVars    == <<gemini_cfg, openai_cfg, calls, gen_call, atext_len, achapters,
                chapter_i, gen_log, content_items, excel_data, gpc>>
xlVars     == <<xdata, xdetailed, xmeta, parsed, reparsed, workbook, xpc>>
tmpVars    == <<rpc, ropen, rdoc, rpage, ridx, used, files, interfered>>
llmVars    == <<llm_op, n_ops, primary_calls>>
vars       == <<textVars, structVars, imgVars, genVars, xlVars, tmpVars, llmVars>>

(***************************************************************************)
(* Bounds of the model.                                                    *)
(***************************************************************************)
MaxPages == 3

(***************************************************************************)
(* Strings.                                                                *)
(***************************************************************************)
EmptyStr  == <<>>
EmptyText == <<EmptyStr>>

WS     == {" ", "\t", "\n"}
Digits == {"0", "1", "2", "3", "4", "5", "6", "7", "8", "9"}
UpperChars == <<"A","B","C","D","E","F","G","H","I","J","K","L","M",
                "N","O","P","Q","R","S","T","U","V","W","X","Y","Z">>
LowerChars == <<"a","b","c","d","e","f","g","h","i","j","k","l","m",
                "n","o","p","q","r","s","t","u","v","w","x","y","z">>
Upper == {UpperChars[i] : i \in 1..26}
Lower == {LowerChars[i] : i \in 1..26}

Min(a, b) == IF a < b THEN a ELSE b
Max(a, b) == IF a > b THEN a ELSE b

\* str.lower() on one character
ToLower(c) ==
    IF c \in Upper THEN LowerChars[CHOOSE i \in 1..26 : UpperChars[i] = c] ELSE c

\* s[i:] with a 1-based first index
From(s, i) == SubSeq(s, i, Len(s))

\* length of the longest run of characters of class cls starting at s[i]
RECURSIVE Run(_, _, _)
Run(s, i, cls) ==
    IF i > Len(s) \/ i < 1 THEN 0
    ELSE IF s[i] \in cls THEN 1 + Run(s, i + 1, cls) ELSE 0

\* str.strip()
RECURSIVE LStrip(_)
LStrip(s) == IF s # <<>> /\ s[1] \in WS THEN LStrip(Tail(s)) ELSE s
RECURSIVE RStrip(_)
RStrip(s) ==
    IF s # <<>> /\ s[Len(s)] \in WS THEN RStrip(SubSeq(s, 1, Len(s) - 1)) ELSE s
Strip(s) == RStrip(LStrip(s))

\* str(n) for a natural number
DigitChars == <<"0", "1", "2", "3", "4", "5", "6", "7", "8", "9">>
RECURSIVE Str(_)
Str(n) == IF n < 10 THEN <<DigitChars[n + 1]>>
          ELSE Str(n \div 10) \o <<DigitChars[(n % 10) + 1]>>

\* len(text) of a text given as its lines: the characters plus the newlines
RECURSIVE TextLen(_)
TextLen(t) ==
    IF Len(t) = 0 THEN 0
    ELSE IF Len(t) = 1 THEN Len(t[1])
    ELSE Len(t[1]) + 1 + TextLen(Tail(t))

\* bool(text): the empty string is falsy
Truthy(t) == t # EmptyText

(***************************************************************************)
(* PDFService._extract_text_with_pdfplumber                                *)
(***************************************************************************)
PageLineA == <<"a", "b">>
PageLineB == <<"c">>
PageTexts == {EmptyText, <<PageLineA>>, <<PageLineA, PageLineB>>}

\* What pdfplumber does on one page: extract_text() returns a text or raises,
\* and page.images is a list or raises.
PageBehaviours ==
    [text : PageTexts, extract : {"ok"}, images : {"none", "some", "raise"}]
    \cup [text : {EmptyText}, extract : {"raise"}, images : {"none"}]

RECURSIVE SeqsUpTo(_, _)
SeqsUpTo(S, n) ==
    IF n = 0 THEN {<<>>}
    ELSE LET shorter == SeqsUpTo(S, n - 1)
         IN  shorter \cup {Append(q, x) : q \in {r \in shorter : Len(r) = n - 1}, x \in S}

\* f"--- Page {page_num} ---"
PageMarker(n) ==
    <<"-", "-", "-", " ", "P", "a", "g", "e", " ">> \o Str(n) \o <<" ", "-", "-", "-">>

\* f"--- Page {page_num} ---\n{page_text}"
PagePart(n, text) == <<PageMarker(n)>> \o text

\* '\n\n'.join(parts): the last line of a part, an empty line, the first of the next
RECURSIVE JoinParts(_)
JoinParts(parts) ==
    IF Len(parts) = 0 THEN EmptyText
    ELSE IF Len(parts) = 1 THEN parts[1]
    ELSE parts[1] \o <<EmptyStr>> \o JoinParts(Tail(parts))

PageInfo(n, len, img, err) ==
    [page |-> n, text_length |-> len, has_images |-> img, error |-> err]

\* the except branch of the page loop
OnPageError_abort(info, n) == info
OnPageError(info, n) == Append(info, PageInfo(n, 0, FALSE, TRUE))

TextInit ==
    /\ pdf \in SeqsUpTo(PageBehaviours, MaxPages)
    /\ page_idx = 1
    /\ text_parts = <<>>
    /\ pages_info = <<>>
    /\ total_pages = Len(pdf)
    /\ tpc = "loop"

TextIdle ==
    /\ pdf = <<>>
    /\ page_idx = 1
    /\ text_parts = <<>>
    /\ pages_info = <<>>
    /\ total_pages = 0
    /\ tpc = "idle"

\* one iteration of `for page_num, page in enumerate(pdf.pages, 1)`
ExtractPage ==
    /\ tpc = "loop"
    /\ page_idx <= Len(pdf)
    /\ LET b == pdf[page_idx]
           n == page_idx
       IN  IF b.extract = "raise"
           THEN /\ pages_info' = OnPageError(pages_info, n)
                /\ UNCHANGED text_parts
           ELSE IF Truthy(b.text)
           THEN \* text_parts.append runs before the dict literal reads page.images
                /\ text_parts' = Append(text_parts, PagePart(n, b.text))
                /\ pages_info' =
                       IF b.images = "raise"
                       THEN OnPageError(pages_info, n)
                       ELSE Append(pages_info,
                                   PageInfo(n, TextLen(b.text), b.images = "some", FALSE))
           ELSE /\ UNCHANGED text_parts
                /\ pages_info' =
                       IF b.images = "raise"
                       THEN OnPageError(pages_info, n)
                       ELSE Append(pages_info, PageInfo(n, 0, b.images = "some", FALSE))
    /\ page_idx' = page_idx + 1
    /\ UNCHANGED <<pdf, total_pages, tpc, structVars, imgVars, genVars, xlVars, tmpVars, llmVars>>

\* the loop is over: the function returns text, pages and total_pages
ExtractReturn ==
    /\ tpc = "loop"
    /\ page_idx > Len(pdf)
    /\ tpc' = "done"
    /\ UNCHANGED <<pdf, page_idx, text_parts, pages_info, total_pages, structVars, imgVars, genVars, xlVars, tmpVars, llmVars>>

ExtractedText == JoinParts(text_parts)

(***************************************************************************)
(* PDFService._extract_structure                                           *)
(*                                                                         *)
(* Each regular expression is an operator that returns the match the       *)
(* backtracking engine finds first: greedy quantifiers take the longest    *)
(* run, and give characters back only as far as the rest of the pattern    *)
(* needs.                                                                  *)
(***************************************************************************)
MaxLines == 4

NoMatch == [ok |-> FALSE, n |-> 0, g1 |-> <<>>, g2 |-> <<>>]
Match(n, g1, g2) == [ok |-> TRUE, n |-> n, g1 |-> g1, g2 |-> g2]

StartsWithCI(s, kw) ==
    /\ Len(s) >= Len(kw)
    /\ \A i \in 1..Len(kw) : ToLower(s[i]) = ToLower(kw[i])

AllIn(s, from, cls) == \A i \in from..Len(s) : s[i] \in cls

KwChapter == <<"C", "h", "a", "p", "t", "e", "r">>
KwUnit    == <<"U", "n", "i", "t">>
KwLesson  == <<"L", "e", "s", "s", "o", "n">>
KwTopic   == <<"T", "o", "p", "i", "c">>
KwSection == <<"S", "e", "c", "t", "i", "o", "n">>

\* ^KW\s+(\d+)[:\s]*(.+)$ under re.IGNORECASE
MatchKeyword(kw, s) ==
    LET w    == Run(s, Len(kw) + 1, WS)
        p    == Len(kw) + 1 + w
        dlen == Min(Run(s, p, Digits), Len(s) - p)
        q    == p + dlen
        clen == Min(Run(s, q, WS \cup {":"}), Len(s) - q)
    IN  IF StartsWithCI(s, kw) /\ w >= 1 /\ dlen >= 1
        THEN Match(2, SubSeq(s, p, q - 1), From(s, q + clen))
        ELSE NoMatch

\* ^(\d+)\.\s*(.+)$
MatchNumDot(s) ==
    LET d    == Run(s, 1, Digits)
        wlen == Min(Run(s, d + 2, WS), Len(s) - (d + 2))
    IN  IF d >= 1 /\ d + 2 <= Len(s) /\ s[d + 1] = "."
        THEN Match(2, SubSeq(s, 1, d), From(s, d + 2 + wlen))
        ELSE NoMatch

\* ^(\d+)\s+(.+)$
MatchNumSpace(s) ==
    LET d    == Run(s, 1, Digits)
        wlen == Min(Run(s, d + 1, WS), Len(s) - (d + 1))
    IN  IF d >= 1 /\ wlen >= 1
        THEN Match(2, SubSeq(s, 1, d), From(s, d + 1 + wlen))
        ELSE NoMatch

\* the position after k leading groups "\d+\." starting at pos, 0 if they are not there
RECURSIVE DottedPrefix(_, _, _)
DottedPrefix(s, pos, k) ==
    IF k = 0 THEN pos
    ELSE LET d == Run(s, pos, Digits)
         IN  IF d >= 1 /\ pos + d <= Len(s) /\ s[pos + d] = "."
             THEN DottedPrefix(s, pos + d + 1, k - 1)
             ELSE 0

\* ^(\d+(\.\d+){k-1})\s*(.+)$ : k = 2 is \d+\.\d+, k = 3 is \d+\.\d+\.\d+, ...
MatchDotted(k, s) ==
    LET pos  == DottedPrefix(s, 1, k - 1)
        dlen == Min(Run(s, pos, Digits), Len(s) - pos)
        q    == pos + dlen
        wlen == Min(Run(s, q, WS), Len(s) - q)
    IN  IF pos >= 1 /\ dlen >= 1
        THEN Match(2, SubSeq(s, 1, q - 1), From(s, q + wlen))
        ELSE NoMatch

\* ^([A-Z][A-Z\s]+)$ , ^([A-Z][a-z\s]+)$ , ^([a-z][a-z\s]+)$
MatchWords(first, rest, s) ==
    IF Len(s) >= 2 /\ s[1] \in first /\ AllIn(s, 2, rest \cup WS)
    THEN Match(1, s, <<>>)
    ELSE NoMatch

\* ^([A-Z][a-z]+[A-Z][a-z\s]+)$
MatchCamel(s) ==
    LET l == Run(s, 2, Lower)
    IN  IF /\ Len(s) >= l + 3
           /\ s[1] \in Upper
           /\ l >= 1
           /\ s[l + 2] \in Upper
           /\ AllIn(s, l + 3, Lower \cup WS)
        THEN Match(1, s, <<>>)
        ELSE NoMatch

NumChapterPatterns == 14
NumSectionPatterns == 6

\* re.match(chapter_patterns[i], line, re.IGNORECASE)
ChapterPattern_dotted_first(i, s) ==
    CASE i \in {1, 2}   -> MatchKeyword(KwChapter, s)
      [] i = 3          -> MatchDotted(2, s)
      [] i = 4          -> MatchDotted(3, s)
      [] i = 5          -> MatchNumDot(s)
      [] i = 6          -> MatchNumSpace(s)
      [] i \in {7, 8}   -> MatchKeyword(KwUnit, s)
      [] i \in {9, 10}  -> MatchKeyword(KwLesson, s)
      [] i \in {11, 12} -> MatchKeyword(KwTopic, s)
      [] OTHER          -> MatchKeyword(KwSection, s)
ChapterPattern_keywords_only(i, s) ==
    CASE i \in {1, 2}   -> MatchKeyword(KwChapter, s)
      [] i \in {5, 6}   -> MatchKeyword(KwUnit, s)
      [] i \in {7, 8}   -> MatchKeyword(KwLesson, s)
      [] i \in {9, 10}  -> MatchKeyword(KwTopic, s)
      [] i \in {11, 12} -> MatchKeyword(KwSection, s)
      [] OTHER          -> NoMatch
ChapterPattern(i, s) ==
    CASE i \in {1, 2}   -> MatchKeyword(KwChapter, s)
      [] i = 3          -> MatchNumDot(s)
      [] i = 4          -> MatchNumSpace(s)
      [] i \in {5, 6}   -> MatchKeyword(KwUnit, s)
      [] i \in {7, 8}   -> MatchKeyword(KwLesson, s)
      [] i \in {9, 10}  -> MatchKeyword(KwTopic, s)
      [] i \in {11, 12} -> MatchKeyword(KwSection, s)
      [] i = 13         -> MatchDotted(2, s)
      [] OTHER          -> MatchDotted(3, s)

\* re.match(section_patterns[i], line): the case matters here
SectionPattern(i, s) ==
    CASE i = 1 -> MatchDotted(3, s)
      [] i = 2 -> MatchDotted(4, s)
      [] i = 3 -> MatchWords(Upper, Upper, s)
      [] i = 4 -> MatchWords(Upper, Lower, s)
      [] i = 5 -> MatchWords(Lower, Lower, s)
      [] OTHER -> MatchCamel(s)

\* the index of the first chapter pattern that matches, 0 if none does
FirstChapterPattern(s) ==
    IF \E i \in 1..NumChapterPatterns : ChapterPattern(i, s).ok
    THEN CHOOSE i \in 1..NumChapterPatterns :
             /\ ChapterPattern(i, s).ok
             /\ \A j \in 1..(i - 1) : ~ChapterPattern(j, s).ok
    ELSE 0

FirstSectionPattern(s) ==
    IF \E i \in 1..NumSectionPatterns : SectionPattern(i, s).ok
    THEN CHOOSE i \in 1..NumSectionPatterns :
             /\ SectionPattern(i, s).ok
             /\ \A j \in 1..(i - 1) : ~SectionPattern(j, s).ok
    ELSE 0

\* match.group(2).strip() if len(match.groups()) > 1 else match.group(1)
TitleOf(m) == IF m.n > 1 THEN Strip(m.g2) ELSE m.g1

\* str.isdigit()
IsDigitStr(t) == t # <<>> /\ \A i \in 1..Len(t) : t[i] \in Digits

Heading(m, ln) == [number |-> m.g1, title |-> TitleOf(m), line |-> ln]

\* the chapters list after the chapter check of one stripped line
ChaptersAfter(chs, s, ln) ==
    LET i == FirstChapterPattern(s)
        m == ChapterPattern(i, s)
    IN  IF i # 0 /\ Len(TitleOf(m)) > 2 /\ ~IsDigitStr(TitleOf(m))
        THEN Append(chs, Heading(m, ln))
        ELSE chs

\* the sections list after the section check of one stripped line
SectionsAfter_unguarded(secs, s, ln) ==
    LET i == FirstSectionPattern(s)
        m == SectionPattern(i, s)
    IN  IF i # 0 /\ Len(TitleOf(m)) > 2
        THEN Append(secs, Heading(m, ln))
        ELSE secs
SectionsAfter(secs, s, ln) ==
    LET i == FirstSectionPattern(s)
        m == SectionPattern(i, s)
    IN  IF FirstChapterPattern(s) = 0 /\ i # 0 /\ Len(TitleOf(m)) > 2
        THEN Append(secs, Heading(m, ln))
        ELSE secs

\* list.sort(key=lambda x: x['line']): a stable insertion sort
RECURSIVE InsertByLine(_, _)
InsertByLine(sorted, h) ==
    IF sorted = <<>> THEN <<h>>
    ELSE IF sorted[Len(sorted)].line <= h.line THEN Append(sorted, h)
    ELSE Append(InsertByLine(SubSeq(sorted, 1, Len(sorted) - 1), h), sorted[Len(sorted)])
RECURSIVE SortByLine(_)
SortByLine(hs) ==
    IF hs = <<>> THEN <<>>
    ELSE InsertByLine(SortByLine(SubSeq(hs, 1, Len(hs) - 1)), hs[Len(hs)])

LineChapterIntro == <<"C", "h", "a", "p", "t", "e", "r", " ", "1", ":", " ", "I", "n", "t", "r", "o">>
LineSomeText     == <<"S", "o", "m", "e", " ", "t", "e", "x", "t">>
LineDetails      == <<"1", ".", "1", " ", "D", "e", "t", "a", "i", "l", "s">>
LineChapter12    == <<"C", "h", "a", "p", "t", "e", "r", " ", "1", "2">>
LineDeep         == <<"1", ".", "2", ".", "3", " ", "D", "e", "e", "p">>
LineNotes        == <<"N", "O", "T", "E", "S">>
LineFour         == <<" ", "1", ".", "2", ".", "3", ".", "4", " ", "F", "o", "u", "r">>
LinePool ==
    {EmptyStr, LineChapterIntro, LineSomeText, LineDetails, LineChapter12,
     LineDeep, LineNotes, LineFour}

\* "Chapter 1: Intro\nSome text\n1.1 Details\n".split('\n')
ExampleText == <<LineChapterIntro, LineSomeText, LineDetails, EmptyStr>>

StructInit ==
    /\ lines \in (SeqsUpTo(LinePool, MaxLines) \ {<<>>})
    /\ line_num = 0
    /\ chapters = <<>>
    /\ sections = <<>>
    /\ all_text = <<>>
    /\ spc = "loop"

\* one iteration of `for line_num, line in enumerate(lines)`
StructLine ==
    /\ spc = "loop"
    /\ line_num < Len(lines)
    /\ LET s == Strip(lines[line_num + 1])
       IN  IF s = <<>> \/ Len(s) < 3
           THEN UNCHANGED <<chapters, sections>>
           ELSE /\ chapters' = ChaptersAfter(chapters, s, line_num + 1)
                /\ sections' = SectionsAfter(sections, s, line_num + 1)
    /\ line_num' = line_num + 1
    /\ UNCHANGED <<lines, all_text, spc, textVars, imgVars, genVars, xlVars, tmpVars, llmVars>>

\* after the loop: both lists are sorted by line and the structure is returned
StructReturn ==
    /\ spc = "loop"
    /\ line_num = Len(lines)
    /\ chapters' = SortByLine(chapters)
    /\ sections' = SortByLine(sections)
    /\ spc' = "done"
    /\ UNCHANGED <<lines, line_num, all_text, textVars, imgVars, genVars, xlVars, tmpVars,
                   llmVars>>

\* the descriptions of the extracted items, f"[Image from page {page}]: {text}":
\* one line, or more when the item's text has line breaks
ItemTextA == <<<<"[Image from page 1]: ", "o", "c", "r">>>>
ItemTextB == <<<<"[Formula from page 2]: ", "x">>, LineChapterIntro>>
ItemTextLists == {<<>>, <<ItemTextA>>, <<ItemTextB, ItemTextA>>}

\* all_text = text_content['text'] + '\n\n' + '\n\n'.join(image_texts), as lines
AllText_items_first(text, image_texts) == JoinParts(image_texts) \o <<EmptyStr>> \o text
AllText(text, image_texts) == text \o <<EmptyStr>> \o JoinParts(image_texts)

\* extract_text_from_pdf returns the merged text with the structure of the
\* page text
ReturnMerged ==
    /\ spc = "done"
    /\ \E image_texts \in ItemTextLists : all_text' = AllText(lines, image_texts)
    /\ spc' = "returned"
    /\ UNCHANGED <<lines, line_num, chapters, sections, textVars, imgVars, genVars, xlVars,
                   tmpVars, llmVars>>

(***************************************************************************)
(* JSON documents.  A JSON document is one atom of a string; json.loads    *)
(* accepts a string that is one document with whitespace around it.        *)
(***************************************************************************)
JsonObjA     == "{topic: ' Cells ', subtopic: 'Parts', content: 'Text'}"
JsonObjB     == "{content: 5, video_link: null}"
JsonListAB   == "[A, B]"
JsonListA1   == "[A, 1]"
JsonNum      == "7"
JsonListNone == "[]"
JsonAtoms    == {JsonObjA, JsonObjB, JsonListAB, JsonListA1, JsonNum, JsonListNone}

\* json.loads(s) does not raise
JsonOk(s) == Len(Strip(s)) = 1 /\ Strip(s)[1] \in JsonAtoms

(***************************************************************************)
(* MistralOCRService.detect_content_type, PDFService._detect_content_type  *)
(***************************************************************************)
MaxImages   == 2
MaxSegments == 11
TableLineThreshold == 10

\* cv2.HoughLinesP returns None or an array of line segments
NoLines    == -1
LineCounts == {NoLines} \cup ((TableLineThreshold - 1)..MaxSegments)

\* What the libraries do on one embedded image:
\*   pix     building the pixmap and writing the temp file: "ok" or "raise"
\*   cv      cv2.imread / cvtColor / Canny / HoughLinesP: "ok", "unreadable"
\*           (imread returns None) or "raise"
\*   segs    the number of line segments HoughLinesP detects
\*   quick   the quick pytesseract pass: its text matches a maths pattern
\*           ("math"), matches none ("plain"), or the pass raises ("raise")
\*   backend the extraction call for the image answers ("ok") or fails ("fail")
ImageKinds ==
    [pix : {"ok"}, cv : {"ok"}, segs : LineCounts,
     quick : {"math", "plain", "raise"}, backend : {"ok", "fail"}]
    \cup [pix : {"ok"}, cv : {"unreadable", "raise"}, segs : {NoLines},
          quick : {"plain"}, backend : {"fail"}]
    \cup [pix : {"raise"}, cv : {"ok"}, segs : {NoLines},
          quick : {"plain"}, backend : {"ok"}]

\* `lines is not None and len(lines) > 10`
IsTable(segs) == segs # NoLines /\ segs > TableLineThreshold

\* MistralOCRService.detect_content_type
detect_content_type_formula_first(k) ==
    IF k.cv # "ok" THEN "general"
    ELSE IF k.quick = "math" THEN "formula"
    ELSE IF IsTable(k.segs) THEN "table"
    ELSE "general"
detect_content_type(k) ==
    IF k.cv # "ok" THEN "general"
    ELSE IF IsTable(k.segs) THEN "table"
    ELSE IF k.quick = "math" THEN "formula"
    ELSE "general"

\* PDFService._detect_content_type
PdfDetectContentType(cfg, k) == IF cfg THEN detect_content_type(k) ELSE "general"

(***************************************************************************)
(* Extraction results.  A result is a dict; `has` is the set of its keys.  *)
(***************************************************************************)
OcrText      == <<"o", "c", "r">>
LatexText    == <<"x", "^", "2">>
ErrorText    == <<"e", "r", "r">>
TableRawText == <<"n", "o", " ", "j", "s", "o", "n">>

ResultDict(ok, ctype, has, text, latex, page, idx) ==
    [success |-> ok, content_type |-> ctype, has |-> has, text |-> text,
     latex |-> latex, page |-> page, image_index |-> idx]

NoResult == ResultDict(FALSE, "none", {}, <<>>, <<>>, 0, 0)

\* OCRService.extract_text: the best text, or '' when every approach fails
OcrExtractText(k) == IF k.backend = "ok" /\ k.cv = "ok" THEN OcrText ELSE <<>>

\* MistralOCRService.extract_formula_from_image, then the caller's page and
\* image_index assignments
FormulaResult(k, page, idx) ==
    IF k.backend = "ok"
    THEN ResultDict(TRUE, "formula",
                    {"success", "latex", "description", "content_type", "page", "image_index"},
                    <<>>, LatexText, page, idx)
    ELSE ResultDict(FALSE, "formula",
                    {"success", "error", "content_type", "page", "image_index"},
                    <<>>, <<>>, page, idx)

\* the extraction the image loop uses for an image of a content type, lines
\* 183-197: the Mistral formula extraction for a formula when the service is
\* configured, the plain OCR text of OCRService.extract_text for anything else
LoopStrategy(cfg, ctype) == IF ctype = "formula" /\ cfg THEN "formula" ELSE "text"

\* the extraction _process_image_with_mistral dispatches to, lines 230-238
MistralStrategy(ctype) == IF ctype \in {"table", "formula", "diagram"} THEN ctype ELSE "text"

\* the result of the inner try of the image loop, lines 183-208
OcrResult(cfg, k, page, idx) ==
    LET ctype == PdfDetectContentType(cfg, k)
    IN  IF LoopStrategy(cfg, ctype) = "formula"
        THEN FormulaResult(k, page, idx)
        ELSE ResultDict(TRUE, ctype,
                        {"success", "text", "content_type", "page", "image_index"},
                        OcrExtractText(k), <<>>, page, idx)

\* MistralOCRService.extract_table_from_image on a backend response
TableResponses ==
    [raises : {FALSE}, text : {<<JsonObjA>>, <<" ", JsonNum>>, TableRawText, <<>>}]
    \cup [raises : {TRUE}, text : {<<>>}]

extract_table_from_image(resp) ==
    IF resp.raises
    THEN ResultDict(FALSE, "table", {"success", "error", "content_type"}, <<>>, <<>>, 0, 0)
    ELSE IF JsonOk(resp.text)
    THEN ResultDict(TRUE, "table", {"success", "table_data", "content_type"},
                    resp.text, <<>>, 0, 0)
    ELSE ResultDict(TRUE, "table", {"success", "text", "content_type"},
                    resp.text, <<>>, 0, 0)

\* the number of results of a content type, as the loop of lines 54-68 counts them
RECURSIVE CountType(_, _)
CountType(results, ctype) ==
    IF results = <<>> THEN 0
    ELSE (IF results[1].content_type = ctype THEN 1 ELSE 0)
         + CountType(Tail(results), ctype)

RECURSIVE CountTableData(_)
CountTableData(results) ==
    IF results = <<>> THEN 0
    ELSE (IF results[1].content_type = "table" /\ "table_data" \in results[1].has
          THEN 1 ELSE 0) + CountTableData(Tail(results))

\* content_breakdown and image_count of extract_text_from_pdf's result
ContentBreakdown_table_data_only(results) ==
    [tables   |-> CountTableData(results),
     formulas |-> CountType(results, "formula"),
     diagrams |-> CountType(results, "diagram"),
     general_images |-> Len(results) - CountTableData(results)
                        - CountType(results, "formula") - CountType(results, "diagram"),
     image_count |-> Len(results)]
ContentBreakdown_general_all(results) ==
    [tables   |-> CountType(results, "table"),
     formulas |-> CountType(results, "formula"),
     diagrams |-> CountType(results, "diagram"),
     general_images |-> Len(results),
     image_count |-> Len(results)]
ContentBreakdown(results) ==
    [tables   |-> CountType(results, "table"),
     formulas |-> CountType(results, "formula"),
     diagrams |-> CountType(results, "diagram"),
     general_images |-> Len(results) - CountType(results, "table")
                        - CountType(results, "formula") - CountType(results, "diagram"),
     image_count |-> Len(results)]

NoBreakdown ==
    [tables |-> 0, formulas |-> 0, diagrams |-> 0, general_images |-> 0, image_count |-> 0]

NoTableCall == [called |-> FALSE, resp |-> [raises |-> FALSE, text |-> <<>>], result |-> NoResult]
NoFormulaCall ==
    [called |-> FALSE, resp |-> [raises |-> FALSE, text |-> <<>>],
     result |-> [success |-> FALSE, latex |-> <<>>, description |-> <<>>,
                 content_type |-> "formula"]]

ImgInit ==
    /\ mistral_cfg \in BOOLEAN
    /\ n_images \in 0..MaxImages
    /\ images = <<>>
    /\ cur_page = 0
    /\ cur_idx = 0
    /\ image_results = <<>>
    /\ content_breakdown = NoBreakdown
    /\ table_call = NoTableCall
    /\ formula_call = NoFormulaCall
    /\ apc = "loop"

ImgIdle ==
    /\ mistral_cfg = FALSE
    /\ n_images = 0
    /\ images = <<>>
    /\ cur_page = 0
    /\ cur_idx = 0
    /\ image_results = <<>>
    /\ content_breakdown = NoBreakdown
    /\ table_call = NoTableCall
    /\ formula_call = NoFormulaCall
    /\ apc = "idle"

\* one iteration of `for img_index, img in enumerate(image_list)`; the image is
\* the next one of the current page or the first one of a later page
AssembleImage ==
    /\ apc = "loop"
    /\ Len(images) < n_images
    /\ \E k \in ImageKinds, newpage \in BOOLEAN :
          LET page == IF newpage THEN cur_page + 1 ELSE cur_page
              idx  == IF newpage THEN 0 ELSE cur_idx
              res  == OcrResult(mistral_cfg, k, page + 1, idx)
          IN  /\ images' = Append(images,
                     [kind |-> k, page_num |-> page, img_index |-> idx,
                      content_type |-> IF k.pix = "ok"
                                       THEN PdfDetectContentType(mistral_cfg, k)
                                       ELSE "none"])
              /\ cur_page' = page
              /\ cur_idx' = idx + 1
              /\ image_results' =
                     IF k.pix = "ok" /\ res.success
                     THEN Append(image_results, res)
                     ELSE image_results
    /\ UNCHANGED <<mistral_cfg, n_images, content_breakdown, table_call, formula_call, apc,
                   textVars, structVars, genVars, xlVars, tmpVars, llmVars>>

\* extract_text_from_pdf, lines 48-94: the results are counted by content type
AssembleReturn ==
    /\ apc = "loop"
    /\ Len(images) = n_images
    /\ content_breakdown' = ContentBreakdown(image_results)
    /\ apc' = "done"
    /\ UNCHANGED <<mistral_cfg, n_images, images, cur_page, cur_idx, image_results,
                   table_call, formula_call, textVars, structVars, genVars, xlVars, tmpVars, llmVars>>

\* PDFService._process_image_with_mistral(image_path, "table"): the structured
\* table extraction of one image
ProcessTableImage ==
    /\ apc = "done"
    /\ mistral_cfg
    /\ ~table_call.called
    /\ \E resp \in TableResponses :
          table_call' = [called |-> TRUE, resp |-> resp,
                         result |-> extract_table_from_image(resp)]
    /\ UNCHANGED <<mistral_cfg, n_images, images, cur_page, cur_idx, image_results,
                   content_breakdown, formula_call, apc, textVars, structVars, genVars, xlVars, tmpVars, llmVars>>

(***************************************************************************)
(* MistralOCRService.extract_formula_from_image: the parsing of the        *)
(* backend's response.  A response is a string of characters; the regular  *)
(* expressions are operators that return the leftmost match, as findall's  *)
(* first element.                                                          *)
(***************************************************************************)
MaxTokens == 3

Letters == Upper \cup Lower
Braces  == {"{", "}"}

\* s[i], or the empty string outside the string
At(s, i) == IF 1 <= i /\ i <= Len(s) THEN s[i] ELSE ""

\* length of the longest run of characters outside cls starting at s[i]
RECURSIVE RunNot(_, _, _)
RunNot(s, i, cls) ==
    IF i > Len(s) \/ i < 1 THEN 0
    ELSE IF s[i] \notin cls THEN 1 + RunNot(s, i + 1, cls) ELSE 0

\* pat occurs in s at position p; the first position from `from` where it does
Occurs(s, pat, p) == p + Len(pat) - 1 <= Len(s) /\ SubSeq(s, p, p + Len(pat) - 1) = pat
FirstOcc(s, pat, from) ==
    IF \E p \in from..Len(s) : Occurs(s, pat, p)
    THEN CHOOSE p \in from..Len(s) :
             Occurs(s, pat, p) /\ \A q \in from..(p - 1) : ~Occurs(s, pat, q)
    ELSE 0

LabelUpper == <<"L", "a", "T", "e", "X", ":">>
LabelLower == <<"l", "a", "t", "e", "x", ":">>

\* response_text.split(label)[1].split('\n')[0].strip()
LabelPart(s, label) ==
    LET a    == FirstOcc(s, label, 1) + Len(label)
        nl   == FirstOcc(s, <<"\n">>, a)
        nx   == FirstOcc(s, label, a)
        ends == {x \in {nl, nx} : x # 0}
        e    == IF ends = {} THEN Len(s) + 1
                ELSE CHOOSE x \in ends : \A y \in ends : x <= y
    IN  Strip(SubSeq(s, a, e - 1))

\* the end of the match of each of the four latex_patterns that starts at
\* position p, 0 when it does not match there
\*   \\[a-zA-Z]+[^{}]*\{[^{}]*\}
CommandEnd(s, p) ==
    LET l == Run(s, p + 1, Letters)
        q == p + 1 + l + RunNot(s, p + 1 + l, Braces)
        e == q + 1 + RunNot(s, q + 1, Braces)
    IN  IF At(s, p) = "\\" /\ l >= 1 /\ At(s, q) = "{" /\ At(s, e) = "}" THEN e ELSE 0
\*   [a-zA-Z_]+\\[a-zA-Z]+
VariableEnd(s, p) ==
    LET l  == Run(s, p, Letters \cup {"_"})
        l2 == Run(s, p + l + 1, Letters)
    IN  IF l >= 1 /\ At(s, p + l) = "\\" /\ l2 >= 1 THEN p + l + l2 ELSE 0
\*   \\sqrt\{[^}]+\}
BracedEnd(s, p, name) ==
    LET a == p + Len(name)
        r == RunNot(s, a, {"}"})
    IN  IF Occurs(s, name, p) /\ r >= 1 /\ At(s, a + r) = "}" THEN a + r ELSE 0
\*   \\frac\{[^}]+\}\{[^}]+\}
FracEnd(s, p) ==
    LET e1 == BracedEnd(s, p, <<"\\", "f", "r", "a", "c", "{">>)
    IN  IF e1 # 0 /\ At(s, e1 + 1) = "{" THEN BracedEnd(s, e1 + 1, <<"{">>) ELSE 0

NumLatexPatterns == 4
LatexPatternEnd(i, s, p) ==
    CASE i = 1 -> CommandEnd(s, p)
      [] i = 2 -> VariableEnd(s, p)
      [] i = 3 -> FracEnd(s, p)
      [] OTHER -> BracedEnd(s, p, <<"\\", "s", "q", "r", "t", "{">>)

\* re.findall(latex_patterns[i], response_text)[0], <<>> when there is no match
FirstMatch(i, s) ==
    IF \E p \in 1..Len(s) : LatexPatternEnd(i, s, p) # 0
    THEN LET p == CHOOSE x \in 1..Len(s) :
                      /\ LatexPatternEnd(i, s, x) # 0
                      /\ \A y \in 1..(x - 1) : LatexPatternEnd(i, s, y) = 0
         IN  SubSeq(s, p, LatexPatternEnd(i, s, p))
    ELSE <<>>

\* the loop over latex_patterns: the first match of the first pattern that matches
PatternMatch(s) ==
    IF \E i \in 1..NumLatexPatterns : FirstMatch(i, s) # <<>>
    THEN FirstMatch(CHOOSE i \in 1..NumLatexPatterns :
                        /\ FirstMatch(i, s) # <<>>
                        /\ \A j \in 1..(i - 1) : FirstMatch(j, s) = <<>>, s)
    ELSE <<>>

\* latex_match of lines 202-222 (None is the empty string here: both are falsy)
LatexMatch(s) ==
    IF FirstOcc(s, LabelUpper, 1) # 0 THEN LabelPart(s, LabelUpper)
    ELSE IF FirstOcc(s, LabelLower, 1) # 0 THEN LabelPart(s, LabelLower)
    ELSE PatternMatch(s)

FormulaDict(ok, latex, description) ==
    [success |-> ok, latex |-> latex, description |-> description,
     content_type |-> "formula"]

\* extract_formula_from_image on a backend response
extract_formula_from_image(resp) ==
    IF resp.raises THEN FormulaDict(FALSE, <<>>, <<>>)
    ELSE FormulaDict(TRUE,
                     IF LatexMatch(resp.text) # <<>> THEN LatexMatch(resp.text)
                     ELSE resp.text,
                     resp.text)

\* the pieces the responses of the model are made of
FormulaTokens ==
    {LabelUpper, LabelLower, <<" ", "x", "^", "2", " ">>, <<"\n">>,
     <<"\\", "f", "r", "a", "c", "{", "a", "}", "{", "b", "}">>,
     <<"y", "\\", "p", "i">>, <<"i", "s", " ">>,
     <<"\\", "s", "q", "r", "t", "{", "{", "}">>}

RECURSIVE Concat(_)
Concat(parts) == IF parts = <<>> THEN <<>> ELSE parts[1] \o Concat(Tail(parts))

FormulaResponses ==
    [raises : {FALSE}, text : {Concat(ts) : ts \in SeqsUpTo(FormulaTokens, MaxTokens)}]
    \cup [raises : {TRUE}, text : {<<>>}]

NoFormulaDict == FormulaDict(FALSE, <<>>, <<>>)

\* the service with a response to come
FormulaInit ==
    /\ mistral_cfg = TRUE
    /\ n_images = 0
    /\ images = <<>>
    /\ cur_page = 0
    /\ cur_idx = 0
    /\ image_results = <<>>
    /\ content_breakdown = NoBreakdown
    /\ table_call = NoTableCall
    /\ formula_call \in [called : {FALSE}, resp : FormulaResponses, result : {NoFormulaDict}]
    /\ apc = "formula"

\* MistralOCRService.extract_formula_from_image(image_path)
ExtractFormula ==
    /\ apc = "formula"
    /\ ~formula_call.called
    /\ formula_call' = [called |-> TRUE, resp |-> formula_call.resp,
                        result |-> extract_formula_from_image(formula_call.resp)]
    /\ UNCHANGED <<mistral_cfg, n_images, images, cur_page, cur_idx, image_results,
                   content_breakdown, table_call, apc, textVars, structVars, genVars,
                   xlVars, tmpVars, llmVars>>

(***************************************************************************)
(* LLMService.generate_educational_content                                 *)
(***************************************************************************)
MaxTextLines == 3
\* every line of the analysed text is taken to be this many characters long
LineChars == 400
FallbackChars == 1000

\* what one call of the Gemini backend does
GeminiOutcomes == {"ok", "quota", "timeout", "error"}

GenSuccessKeys ==
    {"success", "original_text", "generated_content", "content_type", "topic",
     "difficulty_level", "target_audience", "processed_at", "word_count",
     "key_concepts", "processing_time", "model_used"}
GenFailureKeys == {"success", "error", "original_text", "content_type"}

\* a result dict of generate_educational_content: `has` is the set of its keys,
\* and content_items is the value of the key of that name when the dict has it
GenResult(ok, has, err, kc) ==
    [success |-> ok, has |-> has, error |-> err, key_concepts |-> kc,
     content_items |-> <<>>]

NoGenResult == GenResult(FALSE, {}, "none", FALSE)

\* The calls the function makes to the backends, as (backend, outcome) pairs:
\* the content call, and after a content call that answered, the key-concepts call.
GenCalls(gem, oai, main, key) ==
    IF ~gem THEN <<>>
    ELSE IF main = "ok" THEN <<<<"gemini", main>>, <<"gemini", key>>>>
    ELSE <<<<"gemini", main>>>>

\* generate_educational_content: _call_gemini raises when Gemini is not
\* configured or the call fails, and the outer except returns the failure dict;
\* a failure of the key-concepts call only empties key_concepts.
generate_educational_content(gem, oai, main, key) ==
    IF gem /\ main = "ok"
    THEN GenResult(TRUE, GenSuccessKeys, "none", key = "ok")
    ELSE GenResult(FALSE, GenFailureKeys, IF gem THEN main ELSE "not configured", FALSE)

NoGenCall == [called |-> FALSE, main |-> "none", key |-> "none", result |-> NoGenResult]

(***************************************************************************)
(* PDFService._analyze_content_with_llm and create_excel_content           *)
(*                                                                         *)
(* The text is lines 1..atext_len; a piece of it is its sequence of line   *)
(* numbers.                                                                *)
(***************************************************************************)
RECURSIVE Range(_, _)
Range(a, b) == IF a > b THEN <<>> ELSE <<a>> \o Range(a + 1, b)

\* len('\n'.join(lines)) for a piece of n lines
PieceChars(piece) ==
    IF Len(piece) = 0 THEN 0 ELSE Len(piece) * LineChars + (Len(piece) - 1)

\* text[:1000] + "..." if len(text) > 1000 else text
FallbackContent(piece) ==
    [kind |-> "text", piece |-> piece, cut |-> PieceChars(piece) > FallbackChars]

\* f"Chapter {chapter['number']}: {chapter['title']}", and 'General Content'
ChapterTopic(ch) == [kind |-> "chapter", line |-> ch.line]
GeneralTopic     == [kind |-> "general", line |-> 0]

ContentItem(topic, subtopic, content) ==
    [topic |-> topic, subtopic |-> subtopic, content |-> content, video_link |-> ""]

FallbackItem(topic, piece) == ContentItem(topic, "Main Content", FallbackContent(piece))

\* lines[chapter_start-1:chapter_end-1] of chapter i
ChapterEnd(chs, i, nlines) == IF i = Len(chs) THEN nlines ELSE chs[i + 1].line
ChapterText_first_from_top(chs, i, nlines) ==
    Range(IF i = 1 THEN 1 ELSE chs[i].line, ChapterEnd(chs, i, nlines) - 1)
ChapterText(chs, i, nlines) == Range(chs[i].line, ChapterEnd(chs, i, nlines) - 1)

\* The items one generation result adds to content_items: reading
\* content_result['content_items'] of a successful result raises KeyError when
\* the key is missing, and the except branch appends the fallback item.
ItemsFromResult(res, topic, piece) ==
    IF res.success /\ "content_items" \in res.has
    THEN res.content_items
    ELSE <<FallbackItem(topic, piece)>>

\* the rows of create_excel_content, one per content item
RECURSIVE ExcelRows(_)
ExcelRows(items) ==
    IF items = <<>> THEN <<>>
    ELSE <<[Topic |-> items[1].topic, Subtopic |-> items[1].subtopic,
            Content |-> items[1].content, Video_Link |-> items[1].video_link]>>
         \o ExcelRows(Tail(items))

\* the chapter lists _extract_structure can return for a text of n lines:
\* ascending, at most one chapter per line
RECURSIVE ChapterLists(_, _)
ChapterLists(from, n) ==
    IF from > n THEN {<<>>}
    ELSE ChapterLists(from + 1, n)
         \cup {<<[number |-> from, title |-> from, line |-> from]>> \o rest :
                   rest \in ChapterLists(from + 1, n)}

GenInit ==
    /\ gemini_cfg \in BOOLEAN
    /\ openai_cfg \in BOOLEAN
    /\ calls = <<>>
    /\ gen_call = NoGenCall
    /\ atext_len \in 1..MaxTextLines
    /\ achapters \in ChapterLists(1, atext_len)
    /\ chapter_i = 1
    /\ gen_log = <<>>
    /\ content_items = <<>>
    /\ excel_data = <<>>
    /\ gpc = "ready"

GenIdle ==
    /\ gemini_cfg = FALSE
    /\ openai_cfg = FALSE
    /\ calls = <<>>
    /\ gen_call = NoGenCall
    /\ atext_len = 1
    /\ achapters = <<>>
    /\ chapter_i = 1
    /\ gen_log = <<>>
    /\ content_items = <<>>
    /\ excel_data = <<>>
    /\ gpc = "idle"

\* one call of LLMService.generate_educational_content by a client
GenerateContent ==
    /\ gpc = "ready"
    /\ ~gen_call.called
    /\ \E main \in GeminiOutcomes, key \in {"ok", "error"} :
          /\ gen_call' = [called |-> TRUE, main |-> main, key |-> key,
                          result |-> generate_educational_content(
                                         gemini_cfg, openai_cfg, main, key)]
          /\ calls' = calls \o GenCalls(gemini_cfg, openai_cfg, main, key)
    /\ UNCHANGED <<gemini_cfg, openai_cfg, atext_len, achapters, chapter_i, gen_log,
                   content_items, excel_data, gpc, textVars, structVars, imgVars, xlVars, tmpVars, llmVars>>

\* _analyze_content_with_llm begins: LLMService() is built; if that raises, the
\* outer except returns the single General Content fallback item
AnalyzeStart ==
    /\ gpc = "ready"
    /\ \E ctor_ok \in BOOLEAN :
          IF ctor_ok
          THEN /\ gpc' = IF achapters # <<>> THEN "chapters" ELSE "whole"
               /\ UNCHANGED content_items
          ELSE /\ gpc' = "analyzed"
               /\ content_items' = <<FallbackItem(GeneralTopic, Range(1, atext_len))>>
    /\ UNCHANGED <<gemini_cfg, openai_cfg, calls, gen_call, atext_len, achapters,
                   chapter_i, gen_log, excel_data, textVars, structVars, imgVars, xlVars, tmpVars, llmVars>>

\* one iteration of `for i, chapter in enumerate(structure['chapters'])`
AnalyzeChapter ==
    /\ gpc = "chapters"
    /\ chapter_i <= Len(achapters)
    /\ \E main \in GeminiOutcomes, key \in {"ok", "error"} :
          LET piece == ChapterText(achapters, chapter_i, atext_len)
              topic == ChapterTopic(achapters[chapter_i])
              res   == generate_educational_content(gemini_cfg, openai_cfg, main, key)
              items == ItemsFromResult(res, topic, piece)
          IN  /\ content_items' = content_items \o items
              /\ gen_log' = Append(gen_log,
                     [chapter |-> chapter_i, topic |-> topic, piece |-> piece,
                      result |-> res, first |-> Len(content_items) + 1,
                      last |-> Len(content_items) + Len(items)])
              /\ calls' = calls \o GenCalls(gemini_cfg, openai_cfg, main, key)
    /\ chapter_i' = chapter_i + 1
    /\ UNCHANGED <<gemini_cfg, openai_cfg, gen_call, atext_len, achapters, excel_data,
                   gpc, textVars, structVars, imgVars, xlVars, tmpVars, llmVars>>

\* the chapter loop is over
AnalyzeChaptersDone ==
    /\ gpc = "chapters"
    /\ chapter_i > Len(achapters)
    /\ gpc' = "analyzed"
    /\ UNCHANGED <<gemini_cfg, openai_cfg, calls, gen_call, atext_len, achapters,
                   chapter_i, gen_log, content_items, excel_data,
                   textVars, structVars, imgVars, xlVars, tmpVars, llmVars>>

\* no chapter was detected: the whole text is given to the generator
AnalyzeWhole ==
    /\ gpc = "whole"
    /\ \E main \in GeminiOutcomes, key \in {"ok", "error"} :
          LET piece == Range(1, atext_len)
              res   == generate_educational_content(gemini_cfg, openai_cfg, main, key)
              items == ItemsFromResult(res, GeneralTopic, piece)
          IN  /\ content_items' = content_items \o items
              /\ gen_log' = Append(gen_log,
                     [chapter |-> 0, topic |-> GeneralTopic, piece |-> piece,
                      result |-> res, first |-> Len(content_items) + 1,
                      last |-> Len(content_items) + Len(items)])
              /\ calls' = calls \o GenCalls(gemini_cfg, openai_cfg, main, key)
    /\ gpc' = "analyzed"
    /\ UNCHANGED <<gemini_cfg, openai_cfg, gen_call, atext_len, achapters, chapter_i,
                   excel_data, textVars, structVars, imgVars, xlVars, tmpVars, llmVars>>

\* create_excel_content turns the content items into rows and returns
CreateExcelContent ==
    /\ gpc = "analyzed"
    /\ excel_data' = ExcelRows(content_items)
    /\ gpc' = "done"
    /\ UNCHANGED <<gemini_cfg, openai_cfg, calls, gen_call, atext_len, achapters,
                   chapter_i, gen_log, content_items, textVars, structVars, imgVars, xlVars, tmpVars, llmVars>>

(***************************************************************************)
(* ExcelService.parse_json_data                                            *)
(*                                                                         *)
(* A value is a string, None, an integer (s holds its decimal form) or     *)
(* absent (the key is missing).  A dict is a function from the keys the    *)
(* code reads to values.                                                   *)
(***************************************************************************)
MaxItems == 2

StrVal(s) == [t |-> "str", s |-> s]
NoneVal   == [t |-> "none", s |-> <<>>]
IntVal(s) == [t |-> "int", s |-> s]
Absent    == [t |-> "absent", s |-> <<>>]

\* str(v)
PyStr(v) == IF v.t = "none" THEN <<"N", "o", "n", "e">> ELSE v.s

DictKeys ==
    {"topic", "Topic", "subtopic", "Subtopic", "content", "Content",
     "video_link", "Video Link", "Video_Link"}
EmptyDict == [k \in DictKeys |-> Absent]

\* d.get(k, default)
Get(d, k, default) == IF d[k].t = "absent" THEN default ELSE d[k]

\* the seven characters of an opening json fence and the three of a closing fence
FenceJson == "[fence]json"
Fence     == "[fence]"

\* the values json.loads gives for the JSON documents of the model
DictA == [EmptyDict EXCEPT !["topic"] = StrVal(<<" ", "C", "e", "l", "l", "s", " ">>),
                           !["subtopic"] = StrVal(<<"P", "a", "r", "t", "s">>),
                           !["content"] = StrVal(<<"T", "e", "x", "t">>)]
DictB == [EmptyDict EXCEPT !["content"] = IntVal(<<"5">>), !["video_link"] = NoneVal]
JsonElem(isdict, d) == [isdict |-> isdict, d |-> d]
JsonValue(atom) ==
    CASE atom = JsonObjA   -> [kind |-> "dict", elems |-> <<JsonElem(TRUE, DictA)>>]
      [] atom = JsonObjB   -> [kind |-> "dict", elems |-> <<JsonElem(TRUE, DictB)>>]
      [] atom = JsonListAB -> [kind |-> "list",
                               elems |-> <<JsonElem(TRUE, DictA), JsonElem(TRUE, DictB)>>]
      [] atom = JsonListA1 -> [kind |-> "list",
                               elems |-> <<JsonElem(TRUE, DictA), JsonElem(FALSE, EmptyDict)>>]
      [] atom = JsonListNone -> [kind |-> "list", elems |-> <<>>]
      [] OTHER             -> [kind |-> "other", elems |-> <<>>]

\* json.loads(s), for a string it accepts
JsonLoads(s) == JsonValue(Strip(s)[1])

\* the cleaning of lines 318-323: strip, drop a leading json fence, drop a trailing fence
DropFenceJson(s) == IF s # <<>> /\ s[1] = FenceJson THEN Tail(s) ELSE s
DropFence(s) == IF s # <<>> /\ s[Len(s)] = Fence THEN SubSeq(s, 1, Len(s) - 1) ELSE s
CleanItem(s) == Strip(DropFence(DropFenceJson(Strip(s))))

Row(topic, subtopic, content, link) ==
    [Topic |-> topic, Subtopic |-> subtopic, Content |-> content, VideoLink |-> link]

\* the row of a dict parsed from a JSON string: only the lower-case keys are read
RowFromJsonDict(d) ==
    Row(Strip(PyStr(Get(d, "topic", StrVal(<<>>)))),
        Strip(PyStr(Get(d, "subtopic", StrVal(<<>>)))),
        Strip(PyStr(Get(d, "content", StrVal(<<>>)))),
        Strip(PyStr(Get(d, "video_link", StrVal(<<>>)))))

\* the row of an item that is a dict: each key in lower case, else capitalised
RowFromDict_lower_only(d) == RowFromJsonDict(d)
RowFromDict(d) ==
    Row(Strip(PyStr(Get(d, "topic", Get(d, "Topic", StrVal(<<>>))))),
        Strip(PyStr(Get(d, "subtopic", Get(d, "Subtopic", StrVal(<<>>))))),
        Strip(PyStr(Get(d, "content", Get(d, "Content", StrVal(<<>>))))),
        Strip(PyStr(Get(d, "video_link",
                        Get(d, "Video Link", Get(d, "Video_Link", StrVal(<<>>)))))))

\* the row that holds a whole item as its content
ContentRow(s) == Row(<<>>, <<>>, Strip(s), <<>>)

RECURSIVE RowsOfElems(_)
RowsOfElems(elems) ==
    IF elems = <<>> THEN <<>>
    ELSE (IF elems[1].isdict THEN <<RowFromJsonDict(elems[1].d)>> ELSE <<>>)
         \o RowsOfElems(Tail(elems))

\* an item of the data list: a dict, a string or anything else
DictItem(d)  == [kind |-> "dict", d |-> d, s |-> <<>>, o |-> Absent]
StrItem(s)   == [kind |-> "str", d |-> EmptyDict, s |-> s, o |-> Absent]
OtherItem(v) == [kind |-> "other", d |-> EmptyDict, s |-> <<>>, o |-> v]

\* the rows one item of the data list adds to parsed_data
RowsOfItem(item) ==
    IF item.kind = "str"
    THEN IF JsonOk(CleanItem(item.s))
         THEN LET v == JsonLoads(CleanItem(item.s))
              IN  IF v.kind = "other" THEN <<ContentRow(item.s)>>
                  ELSE RowsOfElems(v.elems)
         ELSE <<ContentRow(item.s)>>
    ELSE IF item.kind = "dict" THEN <<RowFromDict(item.d)>>
    ELSE <<ContentRow(PyStr(item.o))>>

RECURSIVE parse_json_data(_)
parse_json_data(data) ==
    IF data = <<>> THEN <<>>
    ELSE RowsOfItem(data[1]) \o parse_json_data(Tail(data))

\* a row of parsed_data seen as an item of a data list: a dict with the keys
\* 'Topic', 'Subtopic', 'Content' and 'Video Link'
RowAsItem(r) ==
    DictItem([EmptyDict EXCEPT !["Topic"] = StrVal(r.Topic),
                               !["Subtopic"] = StrVal(r.Subtopic),
                               !["Content"] = StrVal(r.Content),
                               !["Video Link"] = StrVal(r.VideoLink)])
RECURSIVE RowsAsItems(_)
RowsAsItems(rows) ==
    IF rows = <<>> THEN <<>> ELSE <<RowAsItem(rows[1])>> \o RowsAsItems(Tail(rows))

\* the items the data lists of the model are made of
ItemLower   == DictItem(DictA)
ItemUpper   == DictItem([EmptyDict EXCEPT !["Topic"] = StrVal(<<"A">>),
                                           !["Content"] = StrVal(<<" ", "c">>),
                                           !["Video_Link"] = StrVal(<<"v">>)])
ItemBoth    == DictItem([EmptyDict EXCEPT !["topic"] = NoneVal,
                                           !["Topic"] = StrVal(<<"T">>),
                                           !["content"] = IntVal(<<"5">>)])
ItemFenced  == StrItem(<<FenceJson, "\n", JsonListAB, "\n", Fence>>)
ItemJson    == StrItem(<<" ", JsonObjB>>)
ItemText    == StrItem(<<" ", "h", "i", " ">>)
ItemFenced7 == StrItem(<<FenceJson, JsonNum, Fence>>)
ItemBareFenced == StrItem(<<Fence, "\n", JsonListAB, "\n", Fence>>)
ItemList1   == StrItem(<<JsonListA1>>)
ItemList0   == StrItem(<<JsonListNone>>)
ItemInt     == OtherItem(IntVal(<<"7">>))
ItemNone    == OtherItem(NoneVal)
DataItems ==
    {ItemLower, ItemUpper, ItemBoth, ItemFenced, ItemJson, ItemText, ItemFenced7,
     ItemBareFenced, ItemList1, ItemList0, ItemInt, ItemNone}

(***************************************************************************)
(* ExcelService.create_excel_file                                          *)
(***************************************************************************)
RequiredColumns == <<"Topic", "Subtopic", "Content", "Video Link">>

\* detailed_content: None (given = FALSE) or a dict of three lists.  A table
\* has rows in its table_data or not; a formula has a latex string (maybe
\* empty) and a description.
FormulaLatex   == [latex |-> LatexText, description |-> StrVal(<<"d">>)]
FormulaNoLatex == [latex |-> <<>>, description |-> Absent]
DetailedContents ==
    [given : {TRUE},
     tables : {<<>>, <<[rows |-> TRUE]>>, <<[rows |-> FALSE]>>},
     formulas : {<<>>, <<FormulaLatex>>, <<FormulaNoLatex>>},
     diagrams : {0, 1}]
    \cup [given : {FALSE}, tables : {<<>>}, formulas : {<<>>}, diagrams : {0}]

\* bool(detailed_content): None and {} are falsy
DetailedTruthy(dc) == dc.given

\* the rows appended for the formulas, lines 28-46
\* formula.get(key, default) for a value that may be absent
OrDefault(v, default) == IF v.t = "absent" THEN default ELSE PyStr(v)

RECURSIVE FormulaRows(_)
FormulaRows(fs) ==
    IF fs = <<>> THEN <<>>
    ELSE <<Row(<<"F", "o", "r", "m", "u", "l", "a">>,
               OrDefault(fs[1].description, <<"F", "o", "r", "m", "u", "l", "a">>),
               IF fs[1].latex # <<>>
               THEN <<"$", "$">> \o fs[1].latex \o <<"$", "$">>
               ELSE OrDefault(fs[1].description, <<"F", "o", "r", "m", "u", "l", "a">>),
               <<>>)>>
         \o FormulaRows(Tail(fs))

\* the columns of pd.DataFrame(cleaned_data): none for an empty list
FrameColumns(rows) == IF rows = <<>> THEN <<>> ELSE RequiredColumns

\* lines 56-60: every missing required column is added, then the frame is
\* reduced to the required columns in their order
ContentHeader_as_framed(rows) == FrameColumns(rows)
ContentHeader(rows) ==
    LET cols  == FrameColumns(rows)
        added == SelectSeq(RequiredColumns,
                           LAMBDA c : \A i \in 1..Len(cols) : cols[i] # c)
    IN  SelectSeq(cols \o added,
                  LAMBDA c : \E i \in 1..Len(RequiredColumns) : RequiredColumns[i] = c)

Sheet(name, header, rows, nrows) ==
    [name |-> name, header |-> header, rows |-> rows, nrows |-> nrows]

\* _add_detailed_content_sheets: a sheet per non-empty kind of item.  to_excel
\* is handed the openpyxl workbook; `written` tells whether that call writes
\* the sheet or raises (the exception is logged and swallowed).
RECURSIVE TablesWithRows(_)
TablesWithRows(ts) ==
    IF ts = <<>> THEN 0
    ELSE (IF ts[1].rows THEN 1 ELSE 0) + TablesWithRows(Tail(ts))

DetailedSheets(dc, written) ==
    IF ~written THEN <<>>
    ELSE (IF dc.tables # <<>> /\ TablesWithRows(dc.tables) > 0
          THEN <<Sheet("Tables", <<"Table_Number", "Page">>, <<>>, TablesWithRows(dc.tables))>>
          ELSE <<>>)
         \o (IF dc.formulas # <<>>
             THEN <<Sheet("Formulas",
                          <<"Formula_Number", "Page", "LaTeX", "Description", "Variables">>,
                          <<>>, Len(dc.formulas))>>
             ELSE <<>>)
         \o (IF dc.diagrams > 0
             THEN <<Sheet("Diagrams",
                          <<"Diagram_Number", "Page", "Description", "Content_Type">>,
                          <<>>, dc.diagrams)>>
             ELSE <<>>)

\* the workbook create_excel_file writes
create_excel_file(data, dc, written) ==
    LET cleaned == parse_json_data(data)
                   \o (IF DetailedTruthy(dc) /\ dc.formulas # <<>>
                       THEN FormulaRows(dc.formulas) ELSE <<>>)
    IN  <<Sheet("Content", ContentHeader(cleaned), cleaned, Len(cleaned))>>
        \o (IF DetailedTruthy(dc) THEN DetailedSheets(dc, written) ELSE <<>>)

(***************************************************************************)
(* ExcelService.create_advanced_excel                                      *)
(***************************************************************************)
\* metadata: None (given = FALSE), or a dict with the listed keys ({} has none)
MetaNone      == [given |-> FALSE, keys |-> <<>>]
MetaEmpty     == [given |-> TRUE, keys |-> <<>>]
MetaFile      == [given |-> TRUE, keys |-> <<"original_filename">>]
MetaBreakdown == [given |-> TRUE, keys |-> <<"original_filename", "content_breakdown">>]
Metadatas     == {MetaNone, MetaEmpty, MetaFile, MetaBreakdown}

\* bool(metadata): None and {} are falsy
MetadataTruthy(m) == m.given /\ m.keys # <<>>

\* the metric rows of the 'Summary' sheet, lines 264-273
SummaryMetrics == 7

\* lines 261-263: the frame of [metadata], one row whose columns are its keys
MetadataSheet(m) == Sheet("Metadata", m.keys, <<>>, 1)

\* lines 264-280: the frame of the metric rows
SummarySheet == Sheet("Summary", <<"Metric", "Value">>, <<>>, SummaryMetrics)

\* the workbook create_advanced_excel writes
create_advanced_excel_summary_guarded(data, metadata, dc, written) ==
    LET cleaned == parse_json_data(data)
                   \o (IF DetailedTruthy(dc) /\ dc.formulas # <<>>
                       THEN FormulaRows(dc.formulas) ELSE <<>>)
    IN  <<Sheet("Content", ContentHeader(cleaned), cleaned, Len(cleaned))>>
        \o (IF MetadataTruthy(metadata) THEN <<MetadataSheet(metadata), SummarySheet>>
            ELSE <<>>)
        \o (IF DetailedTruthy(dc) THEN DetailedSheets(dc, written) ELSE <<>>)
create_advanced_excel(data, metadata, dc, written) ==
    LET cleaned == parse_json_data(data)
                   \o (IF DetailedTruthy(dc) /\ dc.formulas # <<>>
                       THEN FormulaRows(dc.formulas) ELSE <<>>)
    IN  <<Sheet("Content", ContentHeader(cleaned), cleaned, Len(cleaned))>>
        \o (IF MetadataTruthy(metadata) THEN <<MetadataSheet(metadata)>> ELSE <<>>)
        \o <<SummarySheet>>
        \o (IF DetailedTruthy(dc) THEN DetailedSheets(dc, written) ELSE <<>>)

XlInit ==
    /\ xdata \in SeqsUpTo(DataItems, MaxItems)
    /\ xdetailed \in DetailedContents
    /\ xmeta \in Metadatas
    /\ parsed = <<>>
    /\ reparsed = <<>>
    /\ workbook = <<>>
    /\ xpc = "ready"

XlIdle ==
    /\ xdata = <<>>
    /\ xdetailed = [given |-> FALSE, tables |-> <<>>, formulas |-> <<>>, diagrams |-> 0]
    /\ xmeta = MetaNone
    /\ parsed = <<>>
    /\ reparsed = <<>>
    /\ workbook = <<>>
    /\ xpc = "idle"

\* parse_json_data(data)
ParseData ==
    /\ xpc = "ready"
    /\ parsed' = parse_json_data(xdata)
    /\ xpc' = "parsed"
    /\ UNCHANGED <<xdata, xdetailed, xmeta, reparsed, workbook, textVars, structVars, imgVars,
                   genVars, tmpVars, llmVars>>

\* parse_json_data called on the list it returned
ParseAgain ==
    /\ xpc = "parsed"
    /\ reparsed' = parse_json_data(RowsAsItems(parsed))
    /\ xpc' = "reparsed"
    /\ UNCHANGED <<xdata, xdetailed, xmeta, parsed, workbook, textVars, structVars, imgVars,
                   genVars, tmpVars, llmVars>>

\* create_excel_file(data, detailed_content=detailed)
CreateExcelFile ==
    /\ xpc = "ready"
    /\ \E written \in BOOLEAN :
          workbook' = create_excel_file(xdata, xdetailed, written)
    /\ xpc' = "written"
    /\ UNCHANGED <<xdata, xdetailed, xmeta, parsed, reparsed, textVars, structVars, imgVars,
                   genVars, tmpVars, llmVars>>

\* create_advanced_excel(data, metadata, detailed_content)
CreateAdvancedExcel ==
    /\ xpc = "ready"
    /\ \E written \in BOOLEAN :
          workbook' = create_advanced_excel(xdata, xmeta, xdetailed, written)
    /\ xpc' = "written_advanced"
    /\ UNCHANGED <<xdata, xdetailed, xmeta, parsed, reparsed, textVars, structVars, imgVars,
                   genVars, tmpVars, llmVars>>

(***************************************************************************)
(* Concurrent requests: PDFService.extract_text_from_pdf run by several     *)
(* requests whose working directory is the same, and the temp image files   *)
(* _extract_images_and_ocr writes there.                                    *)
(***************************************************************************)
MaxDocPages   == 1
MaxPageImages == 1

Requests == {1, 2}
NoOwner  == 0

\* f"temp_image_{page_num}_{img_index}.png": the path is made of the page
\* number and the image index and of nothing else
TempImgPath(page_num, img_index) == <<"temp_image_", page_num, "_", img_index, ".png">>
TempPaths ==
    {TempImgPath(pn, ii) : pn \in 0..(MaxDocPages - 1), ii \in 0..(MaxPageImages - 1)}

\* a document as fitz sees it: the number of embedded images of each page
Docs ==
    UNION {[1..n -> 0..MaxPageImages] : n \in 1..MaxDocPages}

\* the image the loops of lines 149-155 visit next, from page `page` (1-based)
\* and image index `idx` on: a page number and index, or page 0 when none is left
RECURSIVE NextImage(_, _, _)
NextImage(doc, page, idx) ==
    IF page > Len(doc) THEN [page |-> 0, idx |-> 0]
    ELSE IF idx < doc[page] THEN [page |-> page, idx |-> idx]
    ELSE NextImage(doc, page + 1, 0)

CurImage(r) == NextImage(rdoc[r], rpage[r], ridx[r])
\* page_num of the loop is zero-based
CurPath(r)  == TempImgPath(CurImage(r).page - 1, CurImage(r).idx)

TmpInit ==
    /\ rpc = [r \in Requests |-> "start"]
    /\ ropen = [r \in Requests |-> "none"]
    /\ rdoc = [r \in Requests |-> <<>>]
    /\ rpage = [r \in Requests |-> 1]
    /\ ridx = [r \in Requests |-> 0]
    /\ used = [r \in Requests |-> {}]
    /\ files = [path \in TempPaths |-> NoOwner]
    /\ interfered = FALSE

TmpIdle ==
    /\ rpc = [r \in Requests |-> "idle"]
    /\ ropen = [r \in Requests |-> "none"]
    /\ rdoc = [r \in Requests |-> <<>>]
    /\ rpage = [r \in Requests |-> 1]
    /\ ridx = [r \in Requests |-> 0]
    /\ used = [r \in Requests |-> {}]
    /\ files = [path \in TempPaths |-> NoOwner]
    /\ interfered = FALSE

\* the loop moves on to the image after the current one
SkipImage(r) ==
    /\ rpage' = [rpage EXCEPT ![r] = CurImage(r).page]
    /\ ridx' = [ridx EXCEPT ![r] = CurImage(r).idx + 1]

\* extract_text_from_pdf, lines 38-43: a missing file raises, and so does
\* pdfplumber.open in _extract_text_with_pdfplumber
RequestStart ==
    \E r \in Requests :
        /\ rpc[r] = "start"
        /\ \E exists \in BOOLEAN, plumber_ok \in BOOLEAN :
              rpc' = [rpc EXCEPT ![r] = IF exists /\ plumber_ok THEN "open" ELSE "raised"]
        /\ UNCHANGED <<ropen, rdoc, rpage, ridx, used, files, interfered,
                       textVars, structVars, imgVars, genVars, xlVars, llmVars>>

\* doc = fitz.open(pdf_path), line 147: when it raises, the outer except of
\* lines 223-224 logs the error and the empty image_results is returned
OpenDoc ==
    \E r \in Requests :
        /\ rpc[r] = "open"
        /\ \E ok \in BOOLEAN, doc \in Docs :
              IF ok
              THEN /\ ropen' = [ropen EXCEPT ![r] = "ok"]
                   /\ rdoc' = [rdoc EXCEPT ![r] = doc]
                   /\ rpc' = [rpc EXCEPT ![r] = "loop"]
              ELSE /\ ropen' = [ropen EXCEPT ![r] = "raise"]
                   /\ rpc' = [rpc EXCEPT ![r] = "assemble"]
                   /\ UNCHANGED rdoc
        /\ UNCHANGED <<rpage, ridx, used, files, interfered,
                       textVars, structVars, imgVars, genVars, xlVars, llmVars>>

\* lines 156-177 for one image: the pixmap is built and written to the temp
\* path.  "raise" is an exception before the file is opened, "write_raise" one
\* after open() has created the file; both are logged and the loop continues.
WriteTempImage ==
    \E r \in Requests :
        /\ rpc[r] = "loop"
        /\ CurImage(r).page # 0
        /\ \E w \in {"ok", "raise", "write_raise"} :
              /\ IF w = "raise"
                 THEN UNCHANGED <<files, used, interfered>>
                 ELSE /\ files' = [files EXCEPT ![CurPath(r)] = r]
                      /\ used' = [used EXCEPT ![r] = @ \cup {CurPath(r)}]
                      /\ interfered' =
                             (interfered \/ files[CurPath(r)] \notin {NoOwner, r})
              /\ IF w = "ok"
                 THEN /\ rpc' = [rpc EXCEPT ![r] = "extract"]
                      /\ rpage' = [rpage EXCEPT ![r] = CurImage(r).page]
                      /\ ridx' = [ridx EXCEPT ![r] = CurImage(r).idx]
                 ELSE /\ SkipImage(r)
                      /\ UNCHANGED rpc
        /\ UNCHANGED <<ropen, rdoc, textVars, structVars, imgVars, genVars, xlVars, llmVars>>

\* lines 179-211: the content type is detected and the text extracted from the
\* file at the temp path, whatever that file holds by now
ExtractTempImage ==
    \E r \in Requests :
        /\ rpc[r] = "extract"
        /\ interfered' = (interfered \/ files[CurPath(r)] # r)
        /\ rpc' = [rpc EXCEPT ![r] = "remove"]
        /\ UNCHANGED <<ropen, rdoc, rpage, ridx, used, files,
                       textVars, structVars, imgVars, genVars, xlVars, llmVars>>

\* os.remove(temp_img_path), lines 213-219: the file at the path is deleted; if
\* there is none, FileNotFoundError is logged by the except of line 217
RemoveTempImage ==
    \E r \in Requests :
        /\ rpc[r] = "remove"
        /\ files' = [files EXCEPT ![CurPath(r)] = NoOwner]
        /\ interfered' = (interfered \/ files[CurPath(r)] \notin {NoOwner, r})
        /\ SkipImage(r)
        /\ rpc' = [rpc EXCEPT ![r] = "loop"]
        /\ UNCHANGED <<ropen, rdoc, used, textVars, structVars, imgVars, genVars, xlVars, llmVars>>

\* the loops are over: doc.close() and return image_results
ImagesDone ==
    \E r \in Requests :
        /\ rpc[r] = "loop"
        /\ CurImage(r).page = 0
        /\ rpc' = [rpc EXCEPT ![r] = "assemble"]
        /\ UNCHANGED <<ropen, rdoc, rpage, ridx, used, files, interfered,
                       textVars, structVars, imgVars, genVars, xlVars, llmVars>>

\* extract_text_from_pdf, lines 48-94: the results are assembled and the
\* success dict is returned
RequestReturn ==
    \E r \in Requests :
        /\ rpc[r] = "assemble"
        /\ rpc' = [rpc EXCEPT ![r] = "returned"]
        /\ UNCHANGED <<ropen, rdoc, rpage, ridx, used, files, interfered,
                       textVars, structVars, imgVars, genVars, xlVars, llmVars>>

(***************************************************************************)
(* The operations of LLMService and the backend calls they make.  An        *)
(* operation is given the outcome each backend has if it is called          *)
(* (GeminiOutcomes for Gemini, "ok" or "error" for OpenAI).  The model has  *)
(* no clock: nothing in the service waits or measures time between calls.   *)
(***************************************************************************)
MaxOps      == 5
PrefixChars == 500

OpenAIOutcomes == {"ok", "error"}

Call(backend, outcome, prompt) == [backend |-> backend, outcome |-> outcome, prompt |-> prompt]

\* what an operation did: the calls it made in order, how it ended ("returned",
\* "raised", or "failed" for a returned failure dict), the backend whose
\* completion it returned, and for the structured generator the items returned
OpResult(cs, status, source, items) ==
    [calls |-> cs, status |-> status, source |-> source, items |-> items]

\* _call_gemini and _call_openai: a backend that is not configured raises
\* before any call is made
CallGemini(gem, g, prompt) == IF gem THEN <<Call("gemini", g, prompt)>> ELSE <<>>
CallOpenAI(oai, o, prompt) == IF oai THEN <<Call("openai", o, prompt)>> ELSE <<>>

\* LLMService.process_text
process_text_no_fallback(gem, oai, g, o) ==
    IF gem
    THEN OpResult(CallGemini(gem, g, "prompt"),
                  IF g = "ok" THEN "returned" ELSE "raised",
                  IF g = "ok" THEN "gemini" ELSE "none", <<>>)
    ELSE IF oai
    THEN OpResult(CallOpenAI(oai, o, "prompt"),
                  IF o = "ok" THEN "returned" ELSE "raised",
                  IF o = "ok" THEN "openai" ELSE "none", <<>>)
    ELSE OpResult(<<>>, "raised", "none", <<>>)
process_text(gem, oai, g, o) ==
    IF gem
    THEN IF g = "ok"
         THEN OpResult(CallGemini(gem, g, "prompt"), "returned", "gemini", <<>>)
         ELSE IF oai
         THEN OpResult(CallGemini(gem, g, "prompt") \o CallOpenAI(oai, o, "prompt"),
                       IF o = "ok" THEN "returned" ELSE "raised",
                       IF o = "ok" THEN "openai" ELSE "none", <<>>)
         ELSE OpResult(CallGemini(gem, g, "prompt"), "raised", "none", <<>>)
    ELSE IF oai
    THEN OpResult(CallOpenAI(oai, o, "prompt"),
                  IF o = "ok" THEN "returned" ELSE "raised",
                  IF o = "ok" THEN "openai" ELSE "none", <<>>)
    ELSE OpResult(<<>>, "raised", "none", <<>>)

\* summarize_text, translate_text and extract_entities: one _call_openai
OpenAIOnly(oai, o, prompt) ==
    OpResult(CallOpenAI(oai, o, prompt),
             IF oai /\ o = "ok" THEN "returned" ELSE "raised",
             IF oai /\ o = "ok" THEN "openai" ELSE "none", <<>>)

\* _analyze_sentiment and _extract_topics: one _call_gemini
GeminiOnly(gem, g, prompt) ==
    OpResult(CallGemini(gem, g, prompt),
             IF gem /\ g = "ok" THEN "returned" ELSE "raised",
             IF gem /\ g = "ok" THEN "gemini" ELSE "none", <<>>)

\* LLMService.analyze_text: "entities" calls self._extract_entities, which the
\* class does not define
AnalysisTypes == {"sentiment", "entities", "topics", "summary", "other"}
analyze_text(kind, gem, oai, g, o) ==
    CASE kind \in {"sentiment", "topics"} -> GeminiOnly(gem, g, kind)
      [] kind = "summary"                 -> OpenAIOnly(oai, o, "summarize")
      [] OTHER                            -> OpResult(<<>>, "raised", "none", <<>>)

\* generate_educational_content seen as an operation
EducationalOp(gem, oai, g, key) ==
    OpResult([i \in 1..Len(GenCalls(gem, oai, g, key)) |->
                  Call(GenCalls(gem, oai, g, key)[i][1], GenCalls(gem, oai, g, key)[i][2],
                       IF i = 1 THEN "content" ELSE "key_concepts")],
             IF generate_educational_content(gem, oai, g, key).success
             THEN "returned" ELSE "failed",
             IF generate_educational_content(gem, oai, g, key).success
             THEN "gemini" ELSE "none", <<>>)

(***************************************************************************)
(* LLMService.generate_structured_content                                  *)
(***************************************************************************)
\* what the backend answers: a JSON array of items, the empty JSON array, a
\* JSON array holding a number, a JSON value that is no array, the empty
\* string, text that is no JSON, or such text around a JSON array
StructuredResponses ==
    {"items", "empty_list", "bad_items", "not_list", "empty", "text",
     "embedded_items", "embedded_empty"}

\* the Gemini call fails, or answers with one of the responses
StructuredInputs ==
    [g : GeminiOutcomes \ {"ok"}, resp : {"none"}]
    \cup [g : {"ok"}, resp : StructuredResponses]

\* lengths of the input text, around the prefix length
TextChars == {PrefixChars, PrefixChars + 1}

StructItem(topic, subtopic, kind, chars, ellipsis) ==
    [topic |-> topic, subtopic |-> subtopic,
     content |-> [kind |-> kind, chars |-> chars, ellipsis |-> ellipsis]]

\* topic or 'General Content'
TopicOr(topic_given) == IF topic_given THEN "topic" ELSE "General Content"

\* text[:500] + "..." if len(text) > 500 else text
PrefixItem(topic_given, chars) ==
    StructItem(TopicOr(topic_given), "Main Content", "prefix",
               Min(chars, PrefixChars), chars > PrefixChars)

\* the item that holds the whole response as its content
ResponseItem(topic_given, resp) ==
    StructItem(TopicOr(topic_given), "Main Content", "response",
               IF resp = "empty" THEN 0 ELSE 1, FALSE)

GeneratedItems ==
    <<StructItem("generated", "generated", "generated", 1, FALSE),
      StructItem("generated", "generated", "generated", 1, FALSE)>>

StructuredItems(gem, g, resp, topic_given, chars) ==
    IF ~gem \/ g # "ok" \/ resp = "bad_items" THEN <<PrefixItem(topic_given, chars)>>
    ELSE IF resp \in {"items", "embedded_items"} THEN GeneratedItems
    ELSE IF resp \in {"empty_list", "embedded_empty"} THEN <<>>
    ELSE <<ResponseItem(topic_given, resp)>>

generate_structured_content(gem, g, resp, topic_given, chars) ==
    OpResult(CallGemini(gem, g, "structured"), "returned",
             IF gem /\ g = "ok" THEN "gemini" ELSE "none",
             StructuredItems(gem, g, resp, topic_given, chars))

NoOp ==
    [called |-> FALSE, op |-> "none", kind |-> "none", g |-> "none", o |-> "none",
     resp |-> "none", topic_given |-> FALSE, chars |-> 0,
     result |-> OpResult(<<>>, "none", "none", <<>>)]

Op(op, kind, g, o, resp, topic_given, chars, result) ==
    [called |-> TRUE, op |-> op, kind |-> kind, g |-> g, o |-> o, resp |-> resp,
     topic_given |-> topic_given, chars |-> chars, result |-> result]

CallsTo(cs, backend) == Len(SelectSeq(cs, LAMBDA c : c.backend = backend))

LlmInit ==
    /\ llm_op = NoOp
    /\ n_ops = 0
    /\ primary_calls = 0

LlmIdle == LlmInit

\* LLMService.__init__ for the specification of the operations: each backend
\* is configured or not; the rest of the generator state is not used
LlmServiceInit ==
    /\ gemini_cfg \in BOOLEAN
    /\ openai_cfg \in BOOLEAN
    /\ calls = <<>>
    /\ gen_call = NoGenCall
    /\ atext_len = 1
    /\ achapters = <<>>
    /\ chapter_i = 1
    /\ gen_log = <<>>
    /\ content_items = <<>>
    /\ excel_data = <<>>
    /\ gpc = "idle"

\* a client calls process_text
ProcessText ==
    /\ n_ops < MaxOps
    /\ \E g \in GeminiOutcomes, o \in OpenAIOutcomes :
          llm_op' = Op("process_text", "none", g, o, "none", FALSE, 0,
                       process_text(gemini_cfg, openai_cfg, g, o))
    /\ n_ops' = n_ops + 1
    /\ primary_calls' = primary_calls + CallsTo(llm_op'.result.calls, "gemini")
    /\ UNCHANGED <<textVars, structVars, imgVars, genVars, xlVars, tmpVars>>

\* a client calls summarize_text
SummarizeText ==
    /\ n_ops < MaxOps
    /\ \E o \in OpenAIOutcomes :
          llm_op' = Op("summarize_text", "none", "ok", o, "none", FALSE, 0,
                       OpenAIOnly(openai_cfg, o, "summarize"))
    /\ n_ops' = n_ops + 1
    /\ primary_calls' = primary_calls + CallsTo(llm_op'.result.calls, "gemini")
    /\ UNCHANGED <<textVars, structVars, imgVars, genVars, xlVars, tmpVars>>

\* a client calls translate_text
TranslateText ==
    /\ n_ops < MaxOps
    /\ \E o \in OpenAIOutcomes :
          llm_op' = Op("translate_text", "none", "ok", o, "none", FALSE, 0,
                       OpenAIOnly(openai_cfg, o, "translate"))
    /\ n_ops' = n_ops + 1
    /\ primary_calls' = primary_calls + CallsTo(llm_op'.result.calls, "gemini")
    /\ UNCHANGED <<textVars, structVars, imgVars, genVars, xlVars, tmpVars>>

\* a client calls extract_entities
ExtractEntities ==
    /\ n_ops < MaxOps
    /\ \E o \in OpenAIOutcomes :
          llm_op' = Op("extract_entities", "none", "ok", o, "none", FALSE, 0,
                       OpenAIOnly(openai_cfg, o, "extract_entities"))
    /\ n_ops' = n_ops + 1
    /\ primary_calls' = primary_calls + CallsTo(llm_op'.result.calls, "gemini")
    /\ UNCHANGED <<textVars, structVars, imgVars, genVars, xlVars, tmpVars>>

\* a client calls analyze_text
AnalyzeText ==
    /\ n_ops < MaxOps
    /\ \E kind \in AnalysisTypes, g \in {"ok", "error"}, o \in OpenAIOutcomes :
          llm_op' = Op("analyze_text", kind, g, o, "none", FALSE, 0,
                       analyze_text(kind, gemini_cfg, openai_cfg, g, o))
    /\ n_ops' = n_ops + 1
    /\ primary_calls' = primary_calls + CallsTo(llm_op'.result.calls, "gemini")
    /\ UNCHANGED <<textVars, structVars, imgVars, genVars, xlVars, tmpVars>>

\* a client calls generate_educational_content
GenerateEducationalContent ==
    /\ n_ops < MaxOps
    /\ \E g \in GeminiOutcomes :
          llm_op' = Op("generate_educational_content", "none", g, "ok", "none", FALSE, 0,
                       EducationalOp(gemini_cfg, openai_cfg, g, "ok"))
    /\ n_ops' = n_ops + 1
    /\ primary_calls' = primary_calls + CallsTo(llm_op'.result.calls, "gemini")
    /\ UNCHANGED <<textVars, structVars, imgVars, genVars, xlVars, tmpVars>>

\* a client calls generate_structured_content
GenerateStructuredContent ==
    /\ n_ops < MaxOps
    /\ \E inp \in StructuredInputs, topic_given \in BOOLEAN, chars \in TextChars :
          llm_op' = Op("generate_structured_content", "none", inp.g, "ok", inp.resp, topic_given, chars,
                       generate_structured_content(gemini_cfg, inp.g, inp.resp,
                                                   topic_given, chars))
    /\ n_ops' = n_ops + 1
    /\ primary_calls' = primary_calls + CallsTo(llm_op'.result.calls, "gemini")
    /\ UNCHANGED <<textVars, structVars, imgVars, genVars, xlVars, tmpVars>>

StructIdle ==
    /\ lines = <<>>
    /\ line_num = 0
    /\ chapters = <<>>
    /\ sections = <<>>
    /\ all_text = <<>>
    /\ spc = "idle"

SpecTextInit == TextInit /\ StructIdle /\ ImgIdle /\ GenIdle /\ XlIdle /\ TmpIdle /\ LlmIdle
SpecTextNext == ExtractPage \/ ExtractReturn
SpecText == SpecTextInit /\ [][SpecTextNext]_vars

SpecStructInit == StructInit /\ TextIdle /\ ImgIdle /\ GenIdle /\ XlIdle /\ TmpIdle /\ LlmIdle
SpecStructNext == StructLine \/ StructReturn \/ ReturnMerged
SpecStruct == SpecStructInit /\ [][SpecStructNext]_vars

SpecImgInit == ImgInit /\ TextIdle /\ StructIdle /\ GenIdle /\ XlIdle /\ TmpIdle /\ LlmIdle
SpecImgNext == AssembleImage \/ AssembleReturn \/ ProcessTableImage
SpecImg == SpecImgInit /\ [][SpecImgNext]_vars

SpecFormulaInit ==
    FormulaInit /\ TextIdle /\ StructIdle /\ GenIdle /\ XlIdle /\ TmpIdle /\ LlmIdle
SpecFormulaNext == ExtractFormula
SpecFormula == SpecFormulaInit /\ [][SpecFormulaNext]_vars

SpecGenInit == GenInit /\ TextIdle /\ StructIdle /\ ImgIdle /\ XlIdle /\ TmpIdle /\ LlmIdle
SpecGenNext ==
    \/ GenerateContent
    \/ AnalyzeStart
    \/ AnalyzeChapter
    \/ AnalyzeChaptersDone
    \/ AnalyzeWhole
    \/ CreateExcelContent
SpecGen == SpecGenInit /\ [][SpecGenNext]_vars

SpecExcelInit == XlInit /\ TextIdle /\ StructIdle /\ ImgIdle /\ GenIdle /\ TmpIdle /\ LlmIdle
SpecExcelNext == ParseData \/ ParseAgain \/ CreateExcelFile \/ CreateAdvancedExcel
SpecExcel == SpecExcelInit /\ [][SpecExcelNext]_vars

SpecTempInit == TmpInit /\ TextIdle /\ StructIdle /\ ImgIdle /\ GenIdle /\ XlIdle /\ LlmIdle
SpecTempNext ==
    \/ RequestStart \/ OpenDoc \/ WriteTempImage \/ ExtractTempImage
    \/ RemoveTempImage \/ ImagesDone \/ RequestReturn
SpecTemp == SpecTempInit /\ [][SpecTempNext]_vars

SpecLlmInit ==
    LlmInit /\ LlmServiceInit /\ TextIdle /\ StructIdle /\ ImgIdle /\ XlIdle /\ TmpIdle
SpecLlmNext ==
    \/ ProcessText \/ SummarizeText \/ TranslateText \/ ExtractEntities
    \/ AnalyzeText \/ GenerateEducationalContent \/ GenerateStructuredContent
SpecLlm == SpecLlmInit /\ [][SpecLlmNext]_vars

\* C1: for a PDF with N pages the text extractor returns exactly N page records,
\* numbered 1..N in ascending order, and total_pages = N, whichever pages raise.
C1_OneRecordPerPage ==
    tpc = "done" =>
        /\ Len(pages_info) = Len(pdf)
        /\ total_pages = Len(pdf)
        /\ \A i \in 1..Len(pages_info) : pages_info[i].page = i

\* a document of at least two pages, every one of which raised, has been extracted
C1_Witness ==
    /\ tpc = "done"
    /\ Len(pdf) >= 2
    /\ \A i \in 1..Len(pdf) : pdf[i].extract = "raise" /\ pages_info[i].error

\* C2 (as claimed): structure inference on the example text yields exactly one
\* chapter (number "1", title "Intro", line 1) and exactly one section
\* (number "1.1", title "Details", line 3), and nothing else.
C2_AsClaimed ==
    (lines = ExampleText /\ spc = "done") =>
        /\ chapters = <<[number |-> <<"1">>, title |-> <<"I", "n", "t", "r", "o">>, line |-> 1]>>
        /\ sections = <<[number |-> <<"1", ".", "1">>, title |-> <<"D", "e", "t", "a", "i", "l", "s">>, line |-> 3]>>

\* C2 (amended): structure inference on the example text yields two chapters,
\* (number "1", title "Intro", line 1) and (number "1", title "1 Details", line 3),
\* and one section whose number and title are both "Some text", at line 2.
C2_ExampleStructure ==
    (lines = ExampleText /\ spc = "done") =>
        /\ chapters = <<[number |-> <<"1">>, title |-> <<"I", "n", "t", "r", "o">>, line |-> 1],
                        [number |-> <<"1">>, title |-> <<"1", " ", "D", "e", "t", "a", "i", "l", "s">>, line |-> 3]>>
        /\ sections = <<[number |-> LineSomeText, title |-> LineSomeText, line |-> 2]>>

\* the example text has been processed to the end
C2_Witness == lines = ExampleText /\ spc = "done" /\ Len(chapters) = 2

\* C3 (as claimed): for every image in which 10 or more line segments are
\* detected, the classifier used by the assembler returns "table".
C3_AsClaimed ==
    \A i \in 1..Len(images) :
        (/\ images[i].kind.pix = "ok"
         /\ images[i].kind.cv = "ok"
         /\ images[i].kind.segs # NoLines
         /\ images[i].kind.segs >= 10)
        => images[i].content_type = "table"

\* C3 (amended): with the Mistral service configured, every image in which more
\* than 10 line segments are detected is classified "table", whatever the
\* formula check would say; without the Mistral service every image is "general".
C3_TableAboveThreshold ==
    \A i \in 1..Len(images) :
        images[i].kind.pix = "ok" =>
            /\ (/\ mistral_cfg
                /\ images[i].kind.cv = "ok"
                /\ images[i].kind.segs # NoLines
                /\ images[i].kind.segs > 10)
               => images[i].content_type = "table"
            /\ ~mistral_cfg => images[i].content_type = "general"

\* an image with more than 10 line segments whose quick OCR text looks like a
\* formula has been classified "table"
C3_Witness ==
    \E i \in 1..Len(images) :
        /\ mistral_cfg
        /\ images[i].kind.pix = "ok"
        /\ images[i].kind.cv = "ok"
        /\ images[i].kind.segs > 10
        /\ images[i].kind.quick = "math"
        /\ images[i].content_type = "table"

\* C4: when the structured extraction of a table image returns text that is not
\* valid JSON, the extractor returns a successful text item that holds the raw
\* response (it raises nothing), such an item is counted as a table, and the
\* assembler counts every image it classified "table" in content_breakdown.tables.
C4_TableTextFallback ==
    /\ (table_call.called /\ ~table_call.resp.raises /\ ~JsonOk(table_call.resp.text))
       => /\ table_call.result.success
          /\ table_call.result.content_type = "table"
          /\ "text" \in table_call.result.has
          /\ "table_data" \notin table_call.result.has
          /\ table_call.result.text = table_call.resp.text
          /\ ContentBreakdown(<<table_call.result>>).tables = 1
    /\ apc = "done"
       => /\ \A i \in 1..Len(images) :
                 images[i].content_type = "table" =>
                     \E j \in 1..Len(image_results) :
                         /\ image_results[j].page = images[i].page_num + 1
                         /\ image_results[j].image_index = images[i].img_index
                         /\ image_results[j].content_type = "table"
          /\ content_breakdown.tables =
                 Cardinality({i \in 1..Len(images) : images[i].content_type = "table"})

\* the structured extraction answered with text that is not JSON, and the
\* assembler has counted an image it classified "table"
C4_Witness ==
    /\ table_call.called
    /\ ~table_call.resp.raises
    /\ table_call.resp.text = TableRawText
    /\ table_call.result.success
    /\ apc = "done"
    /\ content_breakdown.tables >= 1
    /\ \E i \in 1..Len(images) : images[i].content_type = "table"

\* C5 (as claimed): when the Gemini call of generate_educational_content raises a
\* quota error and OpenAI is configured, the result still has success = true and
\* at least one content item.  (The code keeps no call counter.)
C5_AsClaimed ==
    (gen_call.called /\ gemini_cfg /\ openai_cfg /\ gen_call.main = "quota")
    => /\ gen_call.result.success
       /\ "content_items" \in gen_call.result.has
       /\ Len(gen_call.result.content_items) >= 1

\* C6 (as claimed): when the generation call times out, content generation does
\* not fail: its result carries a content item (the fallback stand-in) for the
\* subtopic whose call timed out.
C6_AsClaimed ==
    (gen_call.called /\ gemini_cfg /\ gen_call.main = "timeout")
    => /\ gen_call.result.success
       /\ "content_items" \in gen_call.result.has
       /\ Len(gen_call.result.content_items) = 1

\* C7 (as claimed): a successful result of generate_educational_content carries
\* content_items, total_items, processing_time and topic.
C7_AsClaimed ==
    (gen_call.called /\ gen_call.result.success)
    => {"content_items", "total_items", "processing_time", "topic"}
           \subseteq gen_call.result.has

\* the items a generation result returned
ItemsReturned(res) == IF "content_items" \in res.has THEN res.content_items ELSE <<>>

\* C8 (as claimed): the rows of create_excel_content are, chapter by chapter in
\* chapter order (or for the whole document when there is no chapter), one row
\* per item the generator returned for it, carrying that item's topic, subtopic
\* and content.
C8_AsClaimed ==
    gpc = "done" =>
        \A n \in 1..Len(gen_log) :
            gen_log[n].result.success =>
                /\ gen_log[n].last - gen_log[n].first + 1
                       = Len(ItemsReturned(gen_log[n].result))
                /\ \A r \in gen_log[n].first..gen_log[n].last :
                       LET it == ItemsReturned(gen_log[n].result)[r - gen_log[n].first + 1]
                       IN  /\ excel_data[r].Topic = it.topic
                           /\ excel_data[r].Subtopic = it.subtopic
                           /\ excel_data[r].Content = it.content

\* no table, formula or diagram item is handed to the writer
NoDetailedItems(dc) == dc.tables = <<>> /\ dc.formulas = <<>> /\ dc.diagrams = 0

\* C9: writing a spreadsheet from an empty row list and no detailed items gives
\* a workbook with exactly one sheet, named "Content", whose only row is the
\* header Topic | Subtopic | Content | Video Link, in that order.
C9_EmptyWorkbook ==
    (xpc = "written" /\ xdata = <<>> /\ NoDetailedItems(xdetailed))
    => /\ Len(workbook) = 1
       /\ workbook[1].name = "Content"
       /\ workbook[1].header = <<"Topic", "Subtopic", "Content", "Video Link">>
       /\ workbook[1].rows = <<>>
       /\ workbook[1].nrows = 0

\* an empty row list has been written with a detailed_content dict of empty lists
C9_Witness ==
    /\ xpc = "written"
    /\ xdata = <<>>
    /\ xdetailed.given
    /\ NoDetailedItems(xdetailed)
    /\ Len(workbook) = 1

\* C10: parse_json_data is idempotent on its own output: parsing the rows it
\* returned gives the same rows, row for row and field for field.
C10_ParseIdempotent == xpc = "reparsed" => reparsed = parsed

\* a list with a fenced JSON string and a dict with capitalised keys has been
\* parsed twice, and the rows are not empty
C10_Witness ==
    /\ xpc = "reparsed"
    /\ Len(xdata) = 2
    /\ xdata[1] = ItemFenced
    /\ xdata[2] = ItemUpper
    /\ Len(reparsed) = 3
    /\ reparsed[1].Topic # <<>>

\* C11 (as claimed): whenever the backend call for an embedded image fails, no
\* item for that image appears in the returned items.
C11_AsClaimed ==
    \A i \in 1..Len(images) :
        (images[i].kind.pix = "ok" /\ images[i].kind.backend = "fail")
        => ~ \E j \in 1..Len(image_results) :
                 /\ image_results[j].page = images[i].page_num + 1
                 /\ image_results[j].image_index = images[i].img_index

\* C12 (as claimed): when the PDF library cannot open the file for image
\* discovery, extract_text_from_pdf does not return a success result.
C12_AsClaimed == \A r \in Requests : ropen[r] = "raise" => rpc[r] # "returned"

\* a request has run its image extraction to the end
ImagesReturned(r) == rpc[r] \in {"assemble", "returned"}

\* C13 (as claimed): when _extract_images_and_ocr has returned, no temp file the
\* request created still exists.
C13_AsClaimed ==
    \A r \in Requests :
        ImagesReturned(r) => \A path \in used[r] : files[path] # r

\* C14 (as claimed): the temp paths of two concurrently processed documents are
\* distinct, and no request overwrites, reads or deletes a temp file written
\* by the other.
C14_AsClaimed ==
    /\ \A r1, r2 \in Requests : r1 # r2 => used[r1] \cap used[r2] = {}
    /\ ~interfered

\* C15 (as claimed): no more than 8 calls of the primary backend are made (the
\* model has no clock, so every call of a behaviour falls within one minute);
\* the calls beyond that budget go to the secondary backend.
C15_AsClaimed == primary_calls <= 8

\* the generation call failed, or the backend's answer holds no content item
NoItemsGenerated(op) ==
    \/ ~gemini_cfg
    \/ op.g # "ok"
    \/ op.resp \in {"empty_list", "embedded_empty", "empty"}

\* C16 (as claimed): whenever structured content generation would yield no
\* content item, generate_structured_content returns exactly one item, whose
\* content is the first 500 characters of the input text.
C16_AsClaimed ==
    (llm_op.op = "generate_structured_content" /\ NoItemsGenerated(llm_op))
    => /\ Len(llm_op.result.items) = 1
       /\ llm_op.result.items[1].content.kind = "prefix"
       /\ llm_op.result.items[1].content.chars = Min(llm_op.chars, 500)

\* C19: in process_text, when the Gemini call fails and OpenAI is configured,
\* OpenAI is called exactly once, after Gemini and with the same prompt, and its
\* completion is returned when it answers; an error reaches the caller only when
\* no backend is configured or every configured backend was called and failed;
\* and when Gemini is configured the first call is to Gemini.
C19_ProcessTextFallback ==
    llm_op.op = "process_text" =>
        LET r  == llm_op.result
            cs == r.calls
        IN  /\ (gemini_cfg /\ openai_cfg /\ llm_op.g # "ok")
               => /\ cs = <<Call("gemini", llm_op.g, "prompt"),
                            Call("openai", llm_op.o, "prompt")>>
                  /\ llm_op.o = "ok" => (r.status = "returned" /\ r.source = "openai")
            /\ r.status = "raised"
               => \/ ~gemini_cfg /\ ~openai_cfg
                  \/ /\ \A i \in 1..Len(cs) : cs[i].outcome # "ok"
                     /\ gemini_cfg => CallsTo(cs, "gemini") = 1
                     /\ openai_cfg => CallsTo(cs, "openai") = 1
            /\ r.status # "raised"
               => /\ r.status = "returned"
                  /\ cs # <<>>
                  /\ cs[Len(cs)].outcome = "ok"
                  /\ cs[Len(cs)].backend = r.source
            /\ gemini_cfg => (cs # <<>> /\ cs[1].backend = "gemini")

\* process_text has returned the completion of OpenAI after a quota error of Gemini
C19_Witness ==
    /\ llm_op.op = "process_text"
    /\ gemini_cfg
    /\ openai_cfg
    /\ llm_op.g = "quota"
    /\ llm_op.o = "ok"
    /\ llm_op.result.status = "returned"
    /\ llm_op.result.source = "openai"
    /\ Len(llm_op.result.calls) = 2

\* C20 (as claimed): every operation of LLMService returns a result whenever
\* at least one of the two backends is configured and answering.
C20_AsClaimed ==
    (/\ llm_op.called
     /\ llm_op.kind # "other"
     /\ \/ gemini_cfg /\ llm_op.g = "ok"
        \/ openai_cfg /\ llm_op.o = "ok")
    => llm_op.result.status = "returned"

\* does the workbook hold a sheet of this name
HasSheet(wb, name) == \E i \in 1..Len(wb) : wb[i].name = name

\* C17 as claimed: the workbook create_advanced_excel writes holds the
\* 'Metadata' sheet and the 'Summary' sheet when a metadata object is supplied,
\* and neither of them when metadata is absent.
C17_AsClaimed ==
    xpc = "written_advanced" =>
        /\ HasSheet(workbook, "Metadata") <=> xmeta.given
        /\ HasSheet(workbook, "Summary") <=> xmeta.given

\* C17 amended: create_advanced_excel writes the 'Metadata' sheet exactly when
\* the metadata it is given is a non-empty dict, and writes the 'Summary' sheet
\* of seven metric rows in every case, right after the 'Content' and 'Metadata'
\* sheets; the workbook of create_excel_file, which takes no metadata, holds
\* neither sheet.
C17_SummaryAlways ==
    /\ xpc = "written_advanced" =>
           /\ HasSheet(workbook, "Metadata") <=> MetadataTruthy(xmeta)
           /\ HasSheet(workbook, "Summary")
           /\ workbook[IF MetadataTruthy(xmeta) THEN 3 ELSE 2] = SummarySheet
           /\ MetadataTruthy(xmeta) => workbook[2] = MetadataSheet(xmeta)
    /\ xpc = "written" =>
           ~HasSheet(workbook, "Metadata") /\ ~HasSheet(workbook, "Summary")

\* create_advanced_excel has written a workbook without metadata and one with
C17_Witness ==
    /\ xpc = "written_advanced"
    /\ xmeta = MetaNone
    /\ HasSheet(workbook, "Summary")
    /\ ~HasSheet(workbook, "Metadata")

\* a string fenced at both ends around one JSON document that is a dict or a list
FencedInner(s) == Strip(SubSeq(s, 2, Len(s) - 1))
FencedStructured(s) ==
    /\ Len(s) >= 3
    /\ s[1] \in {FenceJson, Fence}
    /\ s[Len(s)] = Fence
    /\ JsonOk(FencedInner(s))
    /\ JsonLoads(FencedInner(s)).kind \in {"dict", "list"}

\* C18 as claimed: a string item wrapped in a fenced code block that holds
\* serialized structured data is parsed, after the fence is stripped, into the
\* rows of that data; it becomes a single row with empty Topic and Subtopic
\* only when the data does not parse.
C18_AsClaimed ==
    (xpc = "parsed" /\ Len(xdata) = 1 /\ xdata[1].kind = "str"
        /\ FencedStructured(xdata[1].s))
    => parsed = RowsOfElems(JsonLoads(FencedInner(xdata[1].s)).elems)

\* the number of items of a content type among the results
ItemsOfType(results, ctype) ==
    Cardinality({i \in 1..Len(results) : results[i].content_type = ctype})

\* C21: in the result of extract_text_from_pdf every bucket of content_breakdown
\* is the number of extracted items of that type, no bucket is negative, and
\* tables + formulas + diagrams + general_images = image_count = the number of
\* items.
C21_BreakdownCounts ==
    apc = "done" =>
        LET b == content_breakdown
        IN  /\ b.tables = ItemsOfType(image_results, "table")
            /\ b.formulas = ItemsOfType(image_results, "formula")
            /\ b.diagrams = ItemsOfType(image_results, "diagram")
            /\ b.general_images = ItemsOfType(image_results, "general")
            /\ b.tables >= 0 /\ b.formulas >= 0 /\ b.diagrams >= 0
            /\ b.general_images >= 0
            /\ b.tables + b.formulas + b.diagrams + b.general_images = b.image_count
            /\ b.image_count = Len(image_results)

\* the items of a document with a table image and a formula image were counted
C21_Witness ==
    /\ apc = "done"
    /\ Len(image_results) = 2
    /\ content_breakdown.tables = 1
    /\ content_breakdown.formulas = 1
    /\ content_breakdown.general_images = 0

\* C22 as claimed: every embedded image is extracted by the strategy of its
\* classified type: a table by the structured table extraction, a formula by
\* the LaTeX formula extraction, a diagram by the diagram description and a
\* general image by the plain image-to-text.
C22_AsClaimed ==
    \A i \in 1..Len(images) :
        images[i].content_type # "none" =>
            LoopStrategy(mistral_cfg, images[i].content_type)
                = MistralStrategy(images[i].content_type)

\* the line numbers of a piece of the text
LinesOf(piece) == {piece[j] : j \in 1..Len(piece)}

\* C23 as claimed: the text given to the generator for chapter i is the lines
\* from the chapter's heading line up to, not including, the next chapter's
\* heading line, and for the last chapter from its heading line through the
\* final line of the text; the chapter texts are pairwise disjoint.
C23_AsClaimed ==
    /\ \A k \in 1..Len(gen_log) :
           LET i == gen_log[k].chapter
           IN  i >= 1 =>
                   gen_log[k].piece =
                       Range(achapters[i].line,
                             IF i = Len(achapters) THEN atext_len
                             ELSE achapters[i + 1].line - 1)
    /\ \A k1, k2 \in 1..Len(gen_log) :
           k1 # k2 => LinesOf(gen_log[k1].piece) \cap LinesOf(gen_log[k2].piece) = {}

\* the lines before the first chapter heading
Preamble == IF achapters = <<>> THEN {} ELSE 1..(achapters[1].line - 1)

\* C29 as claimed: when a chapter is detected, the lines before the first
\* chapter heading are in no text given to the generator and in no output row,
\* and the whole-document generation is not run.
C29_AsClaimed ==
    achapters # <<>> =>
        /\ \A k \in 1..Len(gen_log) :
               gen_log[k].chapter >= 1 /\ LinesOf(gen_log[k].piece) \cap Preamble = {}
        /\ \A k \in 1..Len(content_items) :
               LinesOf(content_items[k].content.piece) \cap Preamble = {}
        /\ \A k \in 1..Len(excel_data) :
               LinesOf(excel_data[k].Content.piece) \cap Preamble = {}

\* C29 amended: when a chapter is detected and the LLM service is constructed,
\* the lines before the first chapter heading are in no text given to the
\* generator and in no output row, and the whole-document generation is not
\* run; when the construction of the service raises, no generation call is made
\* and the only row is the 'General Content' fallback, which holds the start of
\* the whole text.
C29_PreambleDropped ==
    achapters # <<>> =>
        /\ \A k \in 1..Len(gen_log) :
               gen_log[k].chapter >= 1 /\ LinesOf(gen_log[k].piece) \cap Preamble = {}
        /\ gpc \in {"analyzed", "done"} =>
               \/ /\ gen_log = <<>>
                  /\ content_items = <<FallbackItem(GeneralTopic, Range(1, atext_len))>>
               \/ /\ Len(gen_log) = Len(achapters)
                  /\ \A k \in 1..Len(content_items) :
                         LinesOf(content_items[k].content.piece) \cap Preamble = {}
        /\ gpc = "done" => excel_data = ExcelRows(content_items)

\* the chapters of a text whose first heading is on line 2 were analysed and
\* the rows written
C29_Witness ==
    /\ gpc = "done"
    /\ atext_len = 3
    /\ Len(achapters) = 2
    /\ achapters[1].line = 2
    /\ Len(gen_log) = 2
    /\ Len(excel_data) = 2

\* the entries of the structure, chapters and sections
Entries(hs) == {hs[i] : i \in 1..Len(hs)}

\* C24: every chapter and section of the returned structure has a line between
\* 1 and the number of lines of the returned merged text, and that line of the
\* merged text is the heading line the entry was made from: the appended item
\* descriptions shift no heading.
C24_LinesStayValid ==
    spc = "returned" =>
        /\ \A h \in Entries(chapters) :
               /\ 1 <= h.line /\ h.line <= Len(all_text)
               /\ all_text[h.line] = lines[h.line]
               /\ ChaptersAfter(<<>>, Strip(all_text[h.line]), h.line) = <<h>>
        /\ \A h \in Entries(sections) :
               /\ 1 <= h.line /\ h.line <= Len(all_text)
               /\ all_text[h.line] = lines[h.line]
               /\ SectionsAfter(<<>>, Strip(all_text[h.line]), h.line) = <<h>>

\* a structure with a chapter and a section was returned with item descriptions
\* appended to the text
C24_Witness ==
    /\ spc = "returned"
    /\ chapters # <<>>
    /\ sections # <<>>
    /\ Len(all_text) > Len(lines) + 2

\* C25: every line contributes at most one entry across chapters and sections:
\* a line that matches a chapter pattern is never a section, also when title
\* validation rejects its chapter match, and no two entries share a line.
C25_OneEntryPerLine ==
    /\ \A i, j \in 1..Len(chapters) : i # j => chapters[i].line # chapters[j].line
    /\ \A i, j \in 1..Len(sections) : i # j => sections[i].line # sections[j].line
    /\ \A c \in Entries(chapters), h \in Entries(sections) : c.line # h.line
    /\ \A h \in Entries(sections) : FirstChapterPattern(Strip(lines[h.line])) = 0
    /\ \A ln \in 1..line_num :
           (FirstChapterPattern(Strip(lines[ln])) # 0 /\ Len(Strip(lines[ln])) >= 3)
           => \A h \in Entries(sections) : h.line # ln

\* a text with a rejected chapter match ('Chapter 12') and a numbered line was
\* processed to the end, and the rejected line made no entry
C25_Witness ==
    /\ spc = "done"
    /\ \E ln \in 1..Len(lines) :
           /\ lines[ln] = LineChapter12
           /\ \A h \in Entries(chapters) \cup Entries(sections) : h.line # ln
    /\ \E ln \in 1..Len(lines) : lines[ln] = LineDeep
    /\ chapters # <<>>
    /\ sections # <<>>

\* C28: every section has its number equal to its title: the numbered section
\* patterns (N.N.N and N.N.N.N) produce no section, because every line they
\* match also matches a chapter pattern.
C28_SectionNumberIsTitle ==
    /\ \A h \in Entries(sections) :
           /\ h.number = h.title
           /\ FirstSectionPattern(Strip(lines[h.line])) \in 3..NumSectionPatterns
    /\ \A ln \in 1..Len(lines) :
           (SectionPattern(1, Strip(lines[ln])).ok \/ SectionPattern(2, Strip(lines[ln])).ok)
           => FirstChapterPattern(Strip(lines[ln])) # 0

\* a text with the line '1.2.3 Deep' was processed: the line is a chapter, and
\* the text has a section
C28_Witness ==
    /\ spc = "done"
    /\ sections # <<>>
    /\ \E ln \in 1..Len(lines) :
           /\ lines[ln] = LineDeep
           /\ \E c \in Entries(chapters) : c.line = ln
    /\ \E ln \in 1..Len(lines) : lines[ln] = LineFour

\* the text of page n is in the merged text, under its '--- Page n ---' marker
InMergedText(n) ==
    \E i \in 1..Len(text_parts) : text_parts[i] = PagePart(n, pdf[n].text)

\* C27 as claimed: the text of a page is in the merged text if and only if the
\* page's record has text_length > 0 and no error: a page recorded as failed
\* contributes no text, and a page whose text is in the merged text is never
\* recorded as failed.
C27_AsClaimed ==
    \A n \in 1..Len(pages_info) :
        InMergedText(pages_info[n].page)
            <=> (pages_info[n].text_length > 0 /\ ~pages_info[n].error)

\* C26 as claimed: formula extraction takes latex from the text after an
\* explicit 'LaTeX:' label on the label's line when the label is present;
\* otherwise from the first match of the first LaTeX command pattern that
\* matches; and when neither is there, description is the full response and
\* latex is empty.
C26_AsClaimed ==
    (formula_call.called /\ ~formula_call.resp.raises) =>
        LET t == formula_call.resp.text
            r == formula_call.result
        IN  /\ r.description = t
            /\ IF FirstOcc(t, LabelUpper, 1) # 0 \/ FirstOcc(t, LabelLower, 1) # 0
               THEN \/ FirstOcc(t, LabelUpper, 1) # 0 /\ r.latex = LabelPart(t, LabelUpper)
                    \/ FirstOcc(t, LabelLower, 1) # 0 /\ r.latex = LabelPart(t, LabelLower)
               ELSE r.latex = PatternMatch(t)

\* the ways to say which item of the data each output row comes from: the
\* owners never decrease along the rows
Owners(nrows, nitems) ==
    {g \in [1..nrows -> 1..nitems] :
        \A j, k \in 1..nrows : j <= k => g[j] <= g[k]}

\* C30 as claimed: parse_json_data drops no item: every item of the data
\* contributes at least one output row, exactly one when it is a dict, and the
\* rows follow the order of the items.
C30_AsClaimed ==
    xpc = "parsed" =>
        \E g \in Owners(Len(parsed), Len(xdata)) :
            \A i \in 1..Len(xdata) :
                LET mine == {k \in 1..Len(parsed) : g[k] = i}
                IN  /\ mine # {}
                    /\ xdata[i].kind = "dict" => Cardinality(mine) = 1
                    /\ \A k \in mine :
                           \E r \in 1..Len(RowsOfItem(xdata[i])) :
                               parsed[k] = RowsOfItem(xdata[i])[r]
====
